---- MODULE Spec2Model ----
(***************************************************************************)
(* Memory assistant of the conversational agent: the temporal classifier   *)
(* (get_time_type), the graph query compiler (QueryBuilder), the store     *)
(* bridge (DbBridge), the transport (sparql_client) and the store actions  *)
(* built on them.                                                          *)
(*                                                                         *)
(* Python strings are TLA+ strings.  The Romanian literals of the source   *)
(* are written without diacritics, TLA+ strings being ASCII:               *)
(*   "cat timp" (how long), "cand" (when), "pana " (until), "incepe",      *)
(*   "sfarsi", "incheia", "dupa", "Nu stiu" (the unknown sentinel).        *)
(***************************************************************************)
EXTENDS Integers, Sequences, FiniteSets, TLC

VARIABLES
    tEnt,       \* get_time_type: the role record passed as ent
    tEnt0,      \* the same record as it was when the call was entered
    tAction,    \* get_time_type: the action argument (None when absent)
    tType,      \* get_time_type: the tag returned by the last call
    tAgain,     \* the tag returned by a second call on the same arguments
    cEntity,    \* compiler: the entity compiled
    cFlag,      \* compiler: the match_existing argument
    cId0,       \* compiler: QueryBuilder.id when the call is entered
    cUuids,     \* compiler: the values uuid() returns, in call order
    cOut,       \* compiler: what each compile call returned
    id,         \* QueryBuilder.id, the class-level counter
    lOp,        \* legacy bridge: the last operation, its statement, outcome
    lIssued,    \* identifiers issued before it, since the last reset
    bPc,        \* SPARQL bridge: where the handling of the message stands
    bCall,      \* the action run, the message's roles, the bridge call made
    bRetries,   \* sparql_client.get: num_retries of the request under way
    bHttp,      \* the HTTP requests sent for the message, with their outcome
    bAnswer,    \* what the transport returned to the bridge method
    bOut,       \* how the bridge method ended
    bUtter,     \* what the action uttered
    th,         \* threads on the legacy bridge: each thread's operation,
                \* position, value read and identifiers named so far
    pDoc,       \* parser: the parsed document, a dependency tree
    pOut        \* parser: what the last call on the document returned

timeVars == <<tEnt, tEnt0, tAction, tType, tAgain>>
compVars == <<cEntity, cFlag, cId0, cUuids, cOut>>
legVars == <<id, lOp, lIssued>>
briVars == <<bPc, bCall, bRetries, bHttp, bAnswer, bOut, bUtter>>
thrVars == <<th>>
parVars == <<pDoc, pOut>>
restVars == <<thrVars, parVars>>
vars == <<timeVars, compVars, legVars, briVars, thrVars, parVars>>

None == "None"

\* None where the code expects an entity
NoEntity == [question |-> None]

(***************************************************************************)
(* Python string helpers                                                   *)
(***************************************************************************)

\* str.startswith(p)
StartsWith(s, p) == Len(s) >= Len(p) /\ SubSeq(s, 1, Len(p)) = p

RECURSIVE LStrip(_)
LStrip(s) == IF Len(s) > 0 /\ Head(s) = " " THEN LStrip(Tail(s)) ELSE s

RECURSIVE RStrip(_)
RStrip(s) ==
    IF Len(s) > 0 /\ SubSeq(s, Len(s), Len(s)) = " "
    THEN RStrip(SubSeq(s, 1, Len(s) - 1))
    ELSE s

\* str.strip()
Strip(s) == RStrip(LStrip(s))

\* dict.get('pre', "")
GetPre(ent) == IF "pre" \in DOMAIN ent THEN ent.pre ELSE ""

\* (ent.get('pre', "") + " " + ent[key]).strip()
PhraseOf(ent, key) == Strip(GetPre(ent) \o " " \o ent[key])

(***************************************************************************)
(* types.py: MemAssistInfoType                                             *)
(***************************************************************************)

MemAssistInfoType ==
    {"LOC", "VAL", "TIME_POINT", "TIME_START", "TIME_END", "TIME_RANGE",
     "TIME_DURATION"}

(***************************************************************************)
(* custom_actions.py: get_time_type                                        *)
(***************************************************************************)

\* re.match(r'^(?:acum|peste|dupa|la) ', phrase)
MatchesAbsoluteTime(phrase) ==
    \E p \in {"acum", "peste", "dupa", "la"} : StartsWith(phrase, p \o " ")

\* a slip that tests the end rule before the start rule
get_time_type_end_first(ent, action) ==
    LET question == ent.question
        phrase   == PhraseOf(ent, "ext_value")
    IN  IF StartsWith(phrase, "pana ")
           \/ action \in {"termina", "sfarsi", "incheia", "finaliza"}
        THEN "TIME_END"
        ELSE IF StartsWith(phrase, "de ") \/ action \in {"incepe", "porni"}
        THEN "TIME_START"
        ELSE IF question = "cat timp" /\ MatchesAbsoluteTime(phrase)
        THEN "TIME_POINT"
        ELSE IF question = "cat timp" \/ phrase \in {"cat timp"}
        THEN "TIME_DURATION"
        ELSE "TIME_POINT"

\* a slip that drops the absolute-time rule
get_time_type_no_abs(ent, action) ==
    LET question == ent.question
        phrase   == PhraseOf(ent, "ext_value")
    IN  IF StartsWith(phrase, "de ") \/ action \in {"incepe", "porni"}
        THEN "TIME_START"
        ELSE IF StartsWith(phrase, "pana ")
                \/ action \in {"termina", "sfarsi", "incheia", "finaliza"}
        THEN "TIME_END"
        ELSE IF question = "cat timp" \/ phrase \in {"cat timp"}
        THEN "TIME_DURATION"
        ELSE "TIME_POINT"

\* a slip that files a how-long role without particle as a range
get_time_type_range(ent, action) ==
    LET question == ent.question
        phrase   == PhraseOf(ent, "ext_value")
    IN  IF StartsWith(phrase, "de ") \/ action \in {"incepe", "porni"}
        THEN "TIME_START"
        ELSE IF StartsWith(phrase, "pana ")
                \/ action \in {"termina", "sfarsi", "incheia", "finaliza"}
        THEN "TIME_END"
        ELSE IF question = "cat timp" /\ MatchesAbsoluteTime(phrase)
        THEN "TIME_POINT"
        ELSE IF question = "cat timp" \/ phrase \in {"cat timp"}
        THEN "TIME_RANGE"
        ELSE "TIME_POINT"

get_time_type(ent, action) ==
    LET question == ent.question
        phrase   == PhraseOf(ent, "ext_value")
    IN  IF StartsWith(phrase, "de ") \/ action \in {"incepe", "porni"}
        THEN "TIME_START"
        ELSE IF StartsWith(phrase, "pana ")
                \/ action \in {"termina", "sfarsi", "incheia", "finaliza"}
        THEN "TIME_END"
        ELSE IF question = "cat timp" /\ MatchesAbsoluteTime(phrase)
        THEN "TIME_POINT"
        ELSE IF question = "cat timp" \/ phrase \in {"cat timp"}
        THEN "TIME_DURATION"
        ELSE "TIME_POINT"

\* the role records and actions the classifier is run on
TimeQuestions == {"cand", "cat timp", "ce"}
TimePres == {"", "de", "pana", "la", "acum", "cat"}
TimeExtValues ==
    {"ora 18", "vineri", "2 ore", "cat timp", "timp", "la pranz", "de ieri",
     "pana luni", "lapte", "acum", ""}
TimeActions ==
    {None, "incepe", "porni", "termina", "sfarsi", "incheia", "finaliza",
     "merge"}

TimeEnts ==
    [question : TimeQuestions, pre : TimePres, ext_value : TimeExtValues]
    \cup [question : TimeQuestions, ext_value : TimeExtValues]

\* the time variables while another component is exercised
TimeIdle ==
    /\ tEnt = [question |-> "cand", pre |-> "", ext_value |-> ""]
    /\ tEnt0 = tEnt
    /\ tAction = None
    /\ tType = None
    /\ tAgain = None

\* any role record and any action, the call not made yet
TimeInit ==
    /\ tEnt \in TimeEnts
    /\ tEnt0 = tEnt
    /\ tAction \in TimeActions
    /\ tType = None
    /\ tAgain = None

\* the call get_time_type(ent, action)
GetTimeType ==
    /\ tType = None
    /\ tType' = get_time_type(tEnt, tAction)
    /\ UNCHANGED <<tEnt, tEnt0, tAction, tAgain, compVars, legVars, briVars, restVars>>

\* the same call made once more, on the same arguments
GetTimeTypeAgain ==
    /\ tType # None
    /\ tAgain = None
    /\ tAgain' = get_time_type(tEnt, tAction)
    /\ UNCHANGED <<tEnt, tEnt0, tAction, tType, compVars, legVars, briVars, restVars>>

(***************************************************************************)
(* kb_mem_assistant.py: QueryBuilder, with the class-level counter         *)
(*                                                                         *)
(* A statement is the sequence of the clauses the f-strings append, in     *)
(* text order, each clause a record of what the f-string interpolates.     *)
(***************************************************************************)

\* f'n{QueryBuilder.id}'
NodeId(n) == "n" \o ToString(n)

\* {action} ({eid}:class {value: "{lemma}", pre: "{pre}"})
ClassClause(verb, eid, entity) ==
    [k |-> "node", verb |-> verb, id |-> eid, label |-> "class",
     value |-> entity.lemma, pre |-> GetPre(entity)]

\* create ({eid}:instance)-[:IS_A]->({cls_id})
InstanceClause(verb, eid, cls_id) ==
    [k |-> "node", verb |-> verb, id |-> eid, label |-> "instance",
     isa |-> cls_id]

\* {verb} ({from})-[:{type}]->({to})
EdgeClause(verb, from, type, to) ==
    [k |-> "edge", verb |-> verb, from |-> from, type |-> type, to |-> to]

\* set {eid}.value = "{string}"
SetClause(eid, string) == [k |-> "set", id |-> eid, value |-> string]

\* match ({eid})-[:IS_A*0..1]->({value: "{lemma}", pre: "{pre}"})
PatternClause(eid, entity) ==
    [k |-> "pattern", verb |-> "match", id |-> eid, value |-> entity.lemma,
     pre |-> GetPre(entity)]

\* the link of a specifier to its parent: SPEC from the parent, HAS from the
\* specifier, none for any other role
SpecLink(verb, eid, inner_id, spec) ==
    IF spec.question \in {"care", "ce fel de"}
    THEN <<EdgeClause(verb, eid, "SPEC", inner_id)>>
    ELSE IF spec.question = "al cui"
    THEN <<EdgeClause(verb, inner_id, "HAS", eid)>>
    ELSE <<>>

\* a slip that links a whose specifier like a which specifier
SpecLinkAllSpec(verb, eid, inner_id, spec) ==
    IF spec.question \in {"care", "ce fel de", "al cui"}
    THEN <<EdgeClause(verb, eid, "SPEC", inner_id)>>
    ELSE <<>>

RECURSIVE query_create_noun_phrase(_, _, _)
RECURSIVE CreateSpecifiers(_, _, _, _)

\* for spec in entity['specifiers']: the loop from specifier i on; acc holds
\* query, string and QueryBuilder.id as the loop has left them
CreateSpecifiers(specs, i, eid, acc) ==
    IF i > Len(specs)
    THEN acc
    ELSE LET inner == query_create_noun_phrase(specs[i], TRUE, acc.id)
         IN  CreateSpecifiers(specs, i + 1, eid,
                 [query  |-> acc.query \o inner.query
                                \o SpecLink("create", eid, inner.eid, specs[i]),
                  string |-> acc.string \o " " \o inner.string,
                  id     |-> inner.id])

\* a slip that takes the class identifier without advancing the counter
query_create_noun_phrase_shared_id(entity, match_existing, id0) ==
    LET action == IF match_existing THEN "merge" ELSE "create"
        eid    == NodeId(id0 + 1)
        string == PhraseOf(entity, "value")
    IN  IF entity.specifiers = <<>>
        THEN [query |-> <<ClassClause(action, eid, entity)>>, eid |-> eid,
              string |-> string, id |-> id0 + 1]
        ELSE LET loop == CreateSpecifiers(entity.specifiers, 1, eid,
                             [query  |-> <<ClassClause(action, eid, entity),
                                           InstanceClause("create", eid, eid)>>,
                              string |-> string,
                              id     |-> id0 + 1])
             IN  [query  |-> Append(loop.query, SetClause(eid, loop.string)),
                  eid    |-> eid,
                  string |-> loop.string,
                  id     |-> loop.id]

\* a slip that emits an instance node for every entity
query_create_noun_phrase_always_instance(entity, match_existing, id0) ==
    LET action == IF match_existing THEN "merge" ELSE "create"
        eid    == NodeId(id0 + 1)
        cls_id == NodeId(id0 + 2)
        string == PhraseOf(entity, "value")
        loop   == CreateSpecifiers(entity.specifiers, 1, eid,
                      [query  |-> <<ClassClause(action, cls_id, entity),
                                    InstanceClause("create", eid, cls_id)>>,
                       string |-> string,
                       id     |-> id0 + 2])
    IN  [query  |-> Append(loop.query, SetClause(eid, loop.string)),
         eid    |-> eid,
         string |-> loop.string,
         id     |-> loop.id]

\* a slip that sets the instance value to the entity's own text
query_create_noun_phrase_own_text(entity, match_existing, id0) ==
    LET action == IF match_existing THEN "merge" ELSE "create"
        eid    == NodeId(id0 + 1)
        string == PhraseOf(entity, "value")
    IN  IF entity.specifiers = <<>>
        THEN [query |-> <<ClassClause(action, eid, entity)>>, eid |-> eid,
              string |-> string, id |-> id0 + 1]
        ELSE LET cls_id == NodeId(id0 + 2)
                 loop   == CreateSpecifiers(entity.specifiers, 1, eid,
                               [query  |-> <<ClassClause(action, cls_id, entity),
                                             InstanceClause("create", eid,
                                                            cls_id)>>,
                                string |-> string,
                                id     |-> id0 + 2])
             IN  [query  |-> Append(loop.query, SetClause(eid, string)),
                  eid    |-> eid,
                  string |-> string,
                  id     |-> loop.id]

\* a slip that emits the instance node with the mode of the class node
query_create_noun_phrase_instance_mode(entity, match_existing, id0) ==
    LET action == IF match_existing THEN "merge" ELSE "create"
        eid    == NodeId(id0 + 1)
        string == PhraseOf(entity, "value")
    IN  IF entity.specifiers = <<>>
        THEN [query |-> <<ClassClause(action, eid, entity)>>, eid |-> eid,
              string |-> string, id |-> id0 + 1]
        ELSE LET cls_id == NodeId(id0 + 2)
                 loop   == CreateSpecifiers(entity.specifiers, 1, eid,
                               [query  |-> <<ClassClause(action, cls_id, entity),
                                             InstanceClause(action, eid,
                                                            cls_id)>>,
                                string |-> string,
                                id     |-> id0 + 2])
             IN  [query  |-> Append(loop.query, SetClause(eid, loop.string)),
                  eid    |-> eid,
                  string |-> loop.string,
                  id     |-> loop.id]

\* QueryBuilder.query_create_noun_phrase(entity, match_existing), entered
\* with QueryBuilder.id = id0; the field id is the counter it leaves
query_create_noun_phrase(entity, match_existing, id0) ==
    LET action == IF match_existing THEN "merge" ELSE "create"
        eid    == NodeId(id0 + 1)
        string == PhraseOf(entity, "value")
    IN  IF entity.specifiers = <<>>
        THEN [query |-> <<ClassClause(action, eid, entity)>>, eid |-> eid,
              string |-> string, id |-> id0 + 1]
        ELSE LET cls_id == NodeId(id0 + 2)
                 loop   == CreateSpecifiers(entity.specifiers, 1, eid,
                               [query  |-> <<ClassClause(action, cls_id, entity),
                                             InstanceClause("create", eid,
                                                            cls_id)>>,
                                string |-> string,
                                id     |-> id0 + 2])
             IN  [query  |-> Append(loop.query, SetClause(eid, loop.string)),
                  eid    |-> eid,
                  string |-> loop.string,
                  id     |-> loop.id]

RECURSIVE query_match_noun_phrase(_, _)
RECURSIVE MatchSpecifiers(_, _, _, _)

\* for spec in entity['specifiers'] of query_match_noun_phrase
MatchSpecifiers(specs, i, eid, acc) ==
    IF i > Len(specs)
    THEN acc
    ELSE LET inner == query_match_noun_phrase(specs[i], acc.id)
         IN  MatchSpecifiers(specs, i + 1, eid,
                 [query |-> acc.query \o inner.query
                               \o SpecLink("match", eid, inner.eid, specs[i]),
                  id    |-> inner.id])

\* a slip that merges the class of the entity instead of matching it
query_match_noun_phrase_merging(entity, id0) ==
    LET eid  == NodeId(id0 + 1)
        loop == MatchSpecifiers(entity.specifiers, 1, eid,
                    [query |-> <<ClassClause("merge", eid, entity)>>,
                     id    |-> id0 + 1])
    IN  [query |-> loop.query, eid |-> eid, id |-> loop.id]

\* QueryBuilder.query_match_noun_phrase(entity), entered with
\* QueryBuilder.id = id0
query_match_noun_phrase(entity, id0) ==
    LET eid  == NodeId(id0 + 1)
        loop == MatchSpecifiers(entity.specifiers, 1, eid,
                    [query |-> <<PatternClause(eid, entity)>>,
                     id    |-> id0 + 1])
    IN  [query |-> loop.query, eid |-> eid, id |-> loop.id]

(***************************************************************************)
(* mem_assistant/kb_mem_assistant.py: QueryBuilder, with uuid identifiers  *)
(*                                                                         *)
(* u is the sequence of the values uuid().hex returns and n0 the number of *)
(* uuid() calls made before the call is entered.                           *)
(***************************************************************************)

\* :{eid} :SPEC :{inner_id} .   and   :{inner_id} :HAS :{eid} .
SparqlCreateLink(eid, inner_id, spec) ==
    IF spec.question \in {"care", "ce fel de"}
    THEN <<EdgeClause("insert", eid, "SPEC", inner_id)>>
    ELSE IF spec.question = "al cui"
    THEN <<EdgeClause("insert", inner_id, "HAS", eid)>>
    ELSE <<>>

\* ?{eid} :SPEC ?{inner_id} .   and   ?{inner_id}) :HAS ?{eid} .
SparqlMatchLink(eid, inner_id, spec) ==
    IF spec.question \in {"care", "ce fel de"}
    THEN <<EdgeClause("match", eid, "SPEC", inner_id)>>
    ELSE IF spec.question = "al cui"
    THEN <<EdgeClause("match", inner_id \o ")", "HAS", eid)>>
    ELSE <<>>

RECURSIVE sparql_create_noun_phrase(_, _, _, _)
RECURSIVE SparqlCreateSpecifiers(_, _, _, _, _)

SparqlCreateSpecifiers(specs, i, eid, u, acc) ==
    IF i > Len(specs)
    THEN acc
    ELSE LET inner == sparql_create_noun_phrase(specs[i], TRUE, u, acc.id)
         IN  SparqlCreateSpecifiers(specs, i + 1, eid, u,
                 [query  |-> acc.query \o inner.query
                                \o SparqlCreateLink(eid, inner.eid, specs[i]),
                  string |-> acc.string \o " " \o inner.string,
                  id     |-> inner.id])

\* QueryBuilder.query_create_noun_phrase(entity, match_existing) of the
\* SPARQL bridge; match_existing is not read
sparql_create_noun_phrase(entity, match_existing, u, n0) ==
    LET eid    == u[n0 + 1]
        string == PhraseOf(entity, "value")
    IN  IF entity.specifiers = <<>>
        THEN [query |-> <<ClassClause("insert", eid, entity)>>, eid |-> eid,
              string |-> string, id |-> n0 + 1]
        ELSE LET cls_id == u[n0 + 2]
                 loop   == SparqlCreateSpecifiers(entity.specifiers, 1, eid, u,
                               [query  |-> <<ClassClause("insert", cls_id,
                                                         entity),
                                             InstanceClause("insert", eid,
                                                            cls_id)>>,
                                string |-> string,
                                id     |-> n0 + 2])
             IN  [query  |-> Append(loop.query, SetClause(eid, loop.string)),
                  eid    |-> eid,
                  string |-> loop.string,
                  id     |-> loop.id]

RECURSIVE sparql_match_noun_phrase(_, _, _)
RECURSIVE SparqlMatchSpecifiers(_, _, _, _, _)

SparqlMatchSpecifiers(specs, i, eid, u, acc) ==
    IF i > Len(specs)
    THEN acc
    ELSE LET inner == sparql_match_noun_phrase(specs[i], u, acc.id)
         IN  SparqlMatchSpecifiers(specs, i + 1, eid, u,
                 [query |-> acc.query \o inner.query
                               \o SparqlMatchLink(eid, inner.eid, specs[i]),
                  id    |-> inner.id])

\* QueryBuilder.query_match_noun_phrase(entity) of the SPARQL bridge
sparql_match_noun_phrase(entity, u, n0) ==
    LET eid  == u[n0 + 1]
        loop == SparqlMatchSpecifiers(entity.specifiers, 1, eid, u,
                    [query |-> <<PatternClause(eid, entity)>>,
                     id    |-> n0 + 1])
    IN  [query |-> loop.query, eid |-> eid, id |-> loop.id]

(***************************************************************************)
(* The entities the parser hands to the compiler (syntactic_parser.py):    *)
(* a role with its specifiers; a which / what-kind / how-much / how-long   *)
(* specifier has no specifiers of its own, a whose specifier has no pre    *)
(* field and may have specifiers.  The field determiner, which no code     *)
(* modelled here reads, is left out.                                       *)
(***************************************************************************)

\* the most nodes (the role and its specifiers at all depths) of an entity
MaxEntityNodes == 4

\* __get_specifiers, first branch: value and lemma are the span text
AttributeSpecifiers ==
    { [question |-> "care", pre |-> "", value |-> "rosie",
       lemma |-> "rosie", specifiers |-> <<>>],
      [question |-> "ce fel de", pre |-> "de", value |-> "lemn",
       lemma |-> "lemn", specifiers |-> <<>>],
      [question |-> "cat", pre |-> "", value |-> "doua",
       lemma |-> "doua", specifiers |-> <<>>],
      [question |-> "cat timp", pre |-> "", value |-> "2 ore",
       lemma |-> "2 ore", specifiers |-> <<>>] }

\* __get_specifiers, second branch: the token text and its lemma
WhoseSpecifier(specs) ==
    [question |-> "al cui", value |-> "mele", lemma |-> "eu",
     specifiers |-> specs]

RECURSIVE SpecifierTrees(_)
RECURSIVE SpecifierLists(_)

\* the specifiers of exactly n nodes
SpecifierTrees(n) ==
    IF n = 1
    THEN AttributeSpecifiers \cup {WhoseSpecifier(<<>>)}
    ELSE {WhoseSpecifier(f) : f \in SpecifierLists(n - 1)}

\* the specifier lists of exactly m nodes in all
SpecifierLists(m) ==
    IF m = 0
    THEN {<<>>}
    ELSE UNION { { <<t>> \o f : t \in SpecifierTrees(j),
                                f \in SpecifierLists(m - j) } : j \in 1..m }

\* process: a top-level role, and the inferred subject, which has no pre
RoleEntity(label, specs) ==
    IF label = "carte"
    THEN [question |-> "ce", pre |-> "", value |-> "carte",
          lemma |-> "carte", ext_value |-> "carte", specifiers |-> specs]
    ELSE IF label = "casa"
    THEN [question |-> "unde", pre |-> "in", value |-> "casele",
          lemma |-> "casa", ext_value |-> "casele", specifiers |-> specs]
    ELSE [question |-> "cine", value |-> "eu", lemma |-> "eu",
          ext_value |-> "eu", specifiers |-> specs]

EntitiesOfSize(n) ==
    { RoleEntity(label, f) : label \in {"carte", "casa", "eu"},
                             f \in SpecifierLists(n - 1) }

Entities == UNION { EntitiesOfSize(n) : n \in 1..MaxEntityNodes }

\* an entity the parser hands over when a token has no text to take the
\* lemma from: the lemma is empty
MalformedEntities ==
    { [question |-> "ce", pre |-> "", value |-> "", lemma |-> "",
       ext_value |-> "", specifiers |-> <<>>] }

\* the number of nodes of an entity
RECURSIVE EntitySize(_)
RECURSIVE EntityListSize(_)
EntitySize(entity) == 1 + EntityListSize(entity.specifiers)
EntityListSize(specs) ==
    IF specs = <<>> THEN 0
    ELSE EntitySize(Head(specs)) + EntityListSize(Tail(specs))

\* the values uuid().hex returns: distinct, in no particular order
UuidStreams ==
    { [i \in 1..(2 * MaxEntityNodes + 2) |-> "u" \o ToString(i)],
      [i \in 1..(2 * MaxEntityNodes + 2) |->
          "u" \o ToString(2 * MaxEntityNodes + 3 - i)] }

\* the largest value of QueryBuilder.id a compile call is entered with
MaxStartId == 2

\* the compiler variables while another component is exercised
CompIdle ==
    /\ cEntity = RoleEntity("eu", <<>>)
    /\ cFlag = FALSE
    /\ cId0 = 0
    /\ cUuids = <<>>
    /\ cOut = [op |-> None]

\* any entity, either flag, any counter value, the call not made yet
CompInit ==
    /\ cEntity \in Entities \cup MalformedEntities
    /\ cFlag \in BOOLEAN
    /\ cId0 \in 0..MaxStartId
    /\ cUuids \in UuidStreams
    /\ cOut = [op |-> None]

\* QueryBuilder.query_create_noun_phrase(entity, match_existing)
Create ==
    /\ cOut.op = None
    /\ cOut' = [op |-> "create",
                r  |-> query_create_noun_phrase(cEntity, cFlag, cId0)]
    /\ UNCHANGED <<cEntity, cFlag, cId0, cUuids, timeVars, legVars, briVars, restVars>>

\* QueryBuilder.query_match_noun_phrase(entity)
Match ==
    /\ cOut.op = None
    /\ cOut' = [op |-> "match", r |-> query_match_noun_phrase(cEntity, cId0)]
    /\ UNCHANGED <<cEntity, cFlag, cId0, cUuids, timeVars, legVars, briVars, restVars>>

\* the same match compiled once more from the same counter value
MatchAgain ==
    /\ cOut.op = "match"
    /\ cOut' = [op |-> "match2", r |-> cOut.r,
                r2 |-> query_match_noun_phrase(cEntity, cId0)]
    /\ UNCHANGED <<cEntity, cFlag, cId0, cUuids, timeVars, legVars, briVars, restVars>>

\* query_create_noun_phrase of the SPARQL bridge
SparqlCreate ==
    /\ cOut.op = None
    /\ cOut' = [op |-> "sparql_create",
                r  |-> sparql_create_noun_phrase(cEntity, cFlag, cUuids, 0)]
    /\ UNCHANGED <<cEntity, cFlag, cId0, cUuids, timeVars, legVars, briVars, restVars>>

\* query_match_noun_phrase of the SPARQL bridge
SparqlMatch ==
    /\ cOut.op = None
    /\ cOut' = [op |-> "sparql_match",
                r  |-> sparql_match_noun_phrase(cEntity, cUuids, 0)]
    /\ UNCHANGED <<cEntity, cFlag, cId0, cUuids, timeVars, legVars, briVars, restVars>>

(***************************************************************************)
(* kb_mem_assistant.py: DbBridge over the counter QueryBuilder             *)
(***************************************************************************)

TimeTypes ==
    {"TIME_POINT", "TIME_START", "TIME_END", "TIME_RANGE", "TIME_DURATION"}

\* create ({node_id})-[:{type}]->(:val {value: "{value}"}), and the same
\* with a :time node, named t{i} in store_action
FactClause(verb, from, type, label, name, value) ==
    [k |-> "fact", verb |-> verb, from |-> from, type |-> type,
     label |-> label, name |-> name, value |-> value]

\* create ({subj_node_id})-[:ACTION]->(act:action {value: "{action}"})
ActionClause(verb, from, name, value) ==
    [k |-> "action", verb |-> verb, from |-> from, name |-> name,
     value |-> value]

\* match ({node_id})-[:{type}]->({name}) return {name}, ...
ReturnClause(from, type, name, columns) ==
    [k |-> "return", verb |-> "match", from |-> from, type |-> type,
     name |-> name, columns |-> columns]

\* a slip that starts the fact edge at the first node of the statement
set_value_from_first_node(entity, v, type, id0) ==
    LET c == query_create_noun_phrase(entity, TRUE, id0)
        n == c.query[1].id
    IN  IF type = "VAL"
        THEN [query |-> Append(c.query,
                          FactClause("create", n, type, "val", "", v)),
              id |-> c.id]
        ELSE IF type = "LOC"
        THEN LET l == query_create_noun_phrase(v, FALSE, c.id)
             IN  [query |-> Append(c.query \o l.query,
                               EdgeClause("create", n, type, l.eid)),
                  id |-> l.id]
        ELSE [query |-> Append(c.query,
                          FactClause("create", n, type, "time", "", v)),
              id |-> c.id]

\* DbBridge.set_value: the statement, and the counter it leaves
set_value(entity, value, type, id0) ==
    LET c == query_create_noun_phrase(entity, TRUE, id0)
    IN  IF type = "VAL"
        THEN [query |-> Append(c.query,
                          FactClause("create", c.eid, type, "val", "", value)),
              id |-> c.id]
        ELSE IF type = "LOC"
        THEN LET l == query_create_noun_phrase(value, FALSE, c.id)
             IN  [query |-> Append(c.query \o l.query,
                               EdgeClause("create", c.eid, type, l.eid)),
                  id |-> l.id]
        ELSE IF type \in TimeTypes
        THEN [query |-> Append(c.query,
                          FactClause("create", c.eid, type, "time", "", value)),
              id |-> c.id]
        ELSE [query |-> c.query, id |-> c.id]

\* DbBridge.get_value: the statement, the counter, the columns the method
\* reads of each record and the columns the statement returns
get_value(entity, type, id0) ==
    LET m == query_match_noun_phrase(entity, id0)
    IN  [query    |-> Append(m.query,
                         ReturnClause(m.eid, type, "val", <<"val", "entity">>)),
         id       |-> m.id,
         columns  |-> <<"val", "entity">>,
         returned |-> {"val", "entity"}]

RECURSIVE StoreLocations(_, _, _)
\* for loc in components['loc'] of store_action
StoreLocations(locs, i, acc) ==
    IF i > Len(locs)
    THEN acc
    ELSE LET l == query_create_noun_phrase(locs[i], FALSE, acc.id)
         IN  StoreLocations(locs, i + 1,
                 [query |-> Append(acc.query \o l.query,
                               EdgeClause("create", "act", "LOC", l.eid)),
                  id    |-> l.id])

\* for i, time in enumerate(components['time']) of store_action
StoreTimes(times) ==
    [i \in 1..Len(times) |->
        FactClause("create", "act", times[i][2], "time",
                   "t" \o ToString(i - 1), times[i][1])]

\* DbBridge.store_action
store_action(components, id0) ==
    LET s  == query_create_noun_phrase(components.subj, TRUE, id0)
        q1 == Append(s.query,
                  ActionClause("create", s.eid, "act", components.action))
        ce == IF components.ce # NoEntity
              THEN LET o == query_create_noun_phrase(components.ce, FALSE, s.id)
                   IN  [query |-> Append(q1 \o o.query,
                                     EdgeClause("create", "act", "CE", o.eid)),
                        id    |-> o.id]
              ELSE [query |-> q1, id |-> s.id]
        lo == StoreLocations(components.loc, 1, ce)
    IN  [query |-> lo.query \o StoreTimes(components.time), id |-> lo.id]

RECURSIVE MatchLocations(_, _, _)
\* for loc in components['loc'] of get_action_time
MatchLocations(locs, i, acc) ==
    IF i > Len(locs)
    THEN acc
    ELSE LET l == query_match_noun_phrase(locs[i], acc.id)
         IN  MatchLocations(locs, i + 1,
                 [query |-> Append(acc.query \o l.query,
                               EdgeClause("match", "act", "LOC", l.eid)),
                  id    |-> l.id,
                  nodes |-> Append(acc.nodes, l.eid)])

\* for i, time in enumerate(components['time']) of get_action_time
MatchTimes(times) ==
    [i \in 1..Len(times) |->
        FactClause("match", "act", times[i][2], "", "t", times[i][1])]

\* DbBridge.get_action_time
get_action_time(components, info_type, id0) ==
    LET s  == query_match_noun_phrase(components.subj, id0)
        q1 == Append(s.query,
                  ActionClause("match", s.eid, "act", components.action))
        ce == IF components.ce # NoEntity
              THEN LET o == query_match_noun_phrase(components.ce, s.id)
                   IN  [query |-> Append(q1 \o o.query,
                                     EdgeClause("match", "act", "CE", o.eid)),
                        id    |-> o.id,
                        nodes |-> <<s.eid, o.eid>>]
              ELSE [query |-> q1, id |-> s.id, nodes |-> <<s.eid>>]
        lo == MatchLocations(components.loc, 1, ce)
    IN  [query    |-> Append(lo.query \o MatchTimes(components.time),
                         ReturnClause("act", info_type, "time", <<"time">>)),
         id       |-> lo.id,
         columns  |-> <<"time">> \o lo.nodes,
         returned |-> {"time"}]

(***************************************************************************)
(* The store's answer and its formatting                                   *)
(***************************************************************************)

\* the most rows the store returns to one query
MaxRows == 2

RECURSIVE NoRepeat(_)
NoRepeat(s) ==
    \/ s = <<>>
    \/ /\ \A i \in 2..Len(s) : s[i] # Head(s)
       /\ NoRepeat(Tail(s))

\* the rows the store may return, as row numbers in the order it returns
\* them
RowOrders ==
    { s \in UNION { [1..n -> 1..MaxRows] : n \in 0..MaxRows } : NoRepeat(s) }

\* the binding of column c in row j: the fact is a literal, the entity a
\* URI of the knowledge base in odd rows and a literal in even rows
Entry(c, j) ==
    IF c \in {"val", "time"}
    THEN [type |-> "literal", value |-> "ora " \o ToString(j)]
    ELSE IF j % 2 = 1
    THEN [type |-> "uri", value |-> "kb/mem_assistant#" \o c \o ToString(j)]
    ELSE [type |-> "literal", value |-> c \o " " \o ToString(j)]

\* r.json()['results']['bindings'] for a query returning the given columns
Bindings(columns, rows) ==
    [i \in 1..Len(rows) |->
        [c \in {columns[n] : n \in 1..Len(columns)} |-> Entry(c, rows[i])]]

RECURSIVE AfterHash(_)
\* the text after the first "#"
AfterHash(s) ==
    IF s = "" THEN ""
    ELSE IF Head(s) = "#" THEN Tail(s)
    ELSE AfterHash(Tail(s))

RECURSIVE BeforeHash(_)
\* the text before the first "#"
BeforeHash(s) ==
    IF s = "" \/ Head(s) = "#" THEN ""
    ELSE Head(s) \o BeforeHash(Tail(s))

\* value(entry): val.split("#")[1] for a URI (every URI of this knowledge
\* base has a "#"), the value itself otherwise
value(entry) ==
    IF entry.type = "uri"
    THEN BeforeHash(AfterHash(entry.value))
    ELSE entry.value

RECURSIVE Join(_, _)
\* sep.join(items)
Join(items, sep) ==
    IF items = <<>> THEN ""
    ELSE IF Len(items) = 1 THEN items[1]
    ELSE items[1] \o sep \o Join(Tail(items), sep)

\* f"* {', '.join(val[1:])}: -> {val[0]}" (the bullet and the arrow of the
\* source written in ASCII)
BulletLine(val) == "* " \o Join(Tail(val), ", ") \o ": -> " \o val[1]

\* a slip that lists the fact value among the entities
BulletLineAll(val) == "* " \o Join(val, ", ") \o ": -> " \o val[1]

\* a slip that answers a single row with a bullet line
prettify_result_bullet_one(values) ==
    IF values = <<>>
    THEN "Nu stiu"
    ELSE Join([i \in 1..Len(values) |-> BulletLine(values[i])], "\n")

\* DbBridge.__prettify_result / __prettyfy_result
prettify_result(values) ==
    IF values = <<>>
    THEN "Nu stiu"
    ELSE IF Len(values) = 1
    THEN values[1][1]
    ELSE Join([i \in 1..Len(values) |-> BulletLine(values[i])], "\n")

\* values = [[record[c]['value'] for c in columns] for record in result]
LegacyValues(columns, result) ==
    [i \in 1..Len(result) |->
        [n \in 1..Len(columns) |-> result[i][columns[n]].value]]

\* values = [[value(record[c]) for c in columns] for record in result]
SparqlValues(columns, result) ==
    [i \in 1..Len(result) |->
        [n \in 1..Len(columns) |-> value(result[i][columns[n]])]]

(***************************************************************************)
(* The legacy bridge in sequential use                                     *)
(***************************************************************************)

\* the entities the bridge operations are run on
Eu == RoleEntity("eu", <<>>)
Carte == RoleEntity("carte", <<>>)
CarteaRosie ==
    RoleEntity("carte",
               << [question |-> "care", pre |-> "", value |-> "rosie",
                   lemma |-> "rosie", specifiers |-> <<>>] >>)
Casa == RoleEntity("casa", <<>>)
CasaMeaDeLemn ==
    RoleEntity("casa",
               << WhoseSpecifier(
                      << [question |-> "ce fel de", pre |-> "de",
                          value |-> "lemn", lemma |-> "lemn",
                          specifiers |-> <<>>] >>) >>)

BridgeEntities == {Eu, CarteaRosie, CasaMeaDeLemn}

\* extract_sentence_components: the components dictionary
Components(subj, ce, loc, time) ==
    [subj |-> subj, action |-> "merge", ce |-> ce, loc |-> loc,
     time |-> time]

\* the sentence components the bridge operations are run on
BridgeComponents ==
    { Components(Eu, NoEntity, <<>>, << <<"la ora 5", "TIME_POINT">> >>),
      Components(Eu, Carte, <<Casa>>, <<>>),
      Components(Eu, CarteaRosie, <<Casa>>,
                 << <<"la ora 5", "TIME_POINT">> >>),
      Components(CarteaRosie, NoEntity, <<CasaMeaDeLemn, Casa>>,
                 << <<"de luni", "TIME_START">>,
                    <<"2 ore", "TIME_DURATION">> >>) }

\* the value stored with a fact of the given type
FactValues(type) ==
    IF type = "LOC" THEN {Casa, CasaMeaDeLemn}
    ELSE IF type = "VAL" THEN {"rosie"}
    ELSE {"la ora 5"}

\* graphdb_client.execute_sparql_query: the request fails with an
\* exception, or the answer has no bindings, or it has rows
Raises == [status |-> "raise"]
NoBindings == [status |-> "none"]
Rows(s) == [status |-> "rows", rows |-> s]
LegacyAnswers == {Raises, NoBindings, Rows(<<>>), Rows(<<1>>), Rows(<<2, 1>>)}

\* the largest value QueryBuilder.id is let to reach
MaxId == 12

\* the identifiers of the nodes the compiler emitted, in text order
IdsOf(query) ==
    LET ns == SelectSeq(query, LAMBDA c : c.k \in {"node", "pattern"})
    IN  [i \in 1..Len(ns) |-> ns[i].id]

IdSetOf(query) == {IdsOf(query)[i] : i \in 1..Len(IdsOf(query))}

LegacyIdle ==
    /\ id = 0
    /\ lOp = [op |-> None, id0 |-> 0, query |-> <<>>]
    /\ lIssued = {}

\* what a store operation leaves: the statement was sent, nothing is
\* returned
LegacyStored(op, args, r, answer) ==
    /\ r.id <= MaxId
    /\ id' = r.id
    /\ lIssued' = lIssued \cup IdSetOf(lOp.query)
    /\ lOp' = [op |-> op, args |-> args, id0 |-> id, query |-> r.query,
               out |-> IF answer = Raises
                       THEN [status |-> "raised"]
                       ELSE [status |-> "returned", value |-> None]]

\* what a get operation leaves: the statement was sent and the answer
\* formatted; a None answer is iterated over, which raises TypeError, and a
\* column read that the statement does not return raises KeyError
LegacyGot(op, args, r, answer) ==
    /\ r.id <= MaxId
    /\ id' = r.id
    /\ lIssued' = lIssued \cup IdSetOf(lOp.query)
    /\ lOp' = [op |-> op, args |-> args, id0 |-> id, query |-> r.query,
               out |-> IF answer \in {Raises, NoBindings}
                       THEN [status |-> "raised"]
                       ELSE IF /\ answer.rows # <<>>
                               /\ \E n \in 1..Len(r.columns) :
                                     r.columns[n] \notin r.returned
                       THEN [status |-> "raised"]
                       ELSE [status |-> "returned",
                             value  |-> prettify_result(
                                 LegacyValues(r.columns,
                                     Bindings(r.columns, answer.rows)))]]

LegacySetValue ==
    /\ \E entity \in BridgeEntities, type \in MemAssistInfoType,
          answer \in {Raises, NoBindings} :
          \E v \in FactValues(type) :
              LegacyStored("set_value",
                           [entity |-> entity, value |-> v, type |-> type],
                           set_value(entity, v, type, id), answer)
    /\ UNCHANGED <<timeVars, compVars, briVars, restVars>>

LegacyGetValue ==
    /\ \E entity \in BridgeEntities, type \in {"VAL", "LOC", "TIME_POINT"},
          answer \in LegacyAnswers :
          LegacyGot("get_value", [entity |-> entity, type |-> type],
                    get_value(entity, type, id), answer)
    /\ UNCHANGED <<timeVars, compVars, briVars, restVars>>

LegacyStoreAction ==
    /\ \E components \in BridgeComponents,
          answer \in {Raises, NoBindings} :
          LegacyStored("store_action", [components |-> components],
                       store_action(components, id), answer)
    /\ UNCHANGED <<timeVars, compVars, briVars, restVars>>

LegacyGetActionTime ==
    /\ \E components \in BridgeComponents,
          info_type \in {"TIME_POINT", "TIME_DURATION"},
          answer \in LegacyAnswers :
          LegacyGot("get_action_time",
                    [components |-> components, info_type |-> info_type],
                    get_action_time(components, info_type, id), answer)
    /\ UNCHANGED <<timeVars, compVars, briVars, restVars>>

\* QueryBuilder.reset()
LegacyReset ==
    /\ id' = 0
    /\ lIssued' = {}
    /\ lOp' = [op |-> "reset", id0 |-> id, query |-> <<>>]
    /\ UNCHANGED <<timeVars, compVars, briVars, restVars>>

(***************************************************************************)
(* The legacy bridge run by two threads.  QueryBuilder.id += 1 reads the   *)
(* class attribute, adds one and writes it back, and the f-string that     *)
(* follows reads it once more; other threads may run between the three.    *)
(***************************************************************************)

Threads == {"t1", "t2"}

\* the bridge operations the threads run
ThreadCalls ==
    {"set_value(carte, rosie)", "set_value(cartea rosie, LOC, casa)",
     "get_value(cartea rosie, LOC)"}

\* the operation as it compiles alone from a counter of 0: its k-th counter
\* update names the node n{k}
ThreadAlone(call) ==
    IF call = "set_value(carte, rosie)"
    THEN set_value(Carte, "rosie", "VAL", 0)
    ELSE IF call = "set_value(cartea rosie, LOC, casa)"
    THEN set_value(CarteaRosie, Casa, "LOC", 0)
    ELSE get_value(CarteaRosie, "LOC", 0)

\* the name a thread gave to the node that is n{k} when it compiles alone
ThreadName(x, names) ==
    IF \E k \in 1..Len(names) : x = NodeId(k)
    THEN names[CHOOSE k \in 1..Len(names) : x = NodeId(k)]
    ELSE x

\* the statement a thread compiled, given the names it read in order
ThreadStatement(call, names) ==
    LET query == ThreadAlone(call).query
    IN  [i \in 1..Len(query) |->
            [f \in DOMAIN query[i] |->
                IF f \in {"id", "isa", "from", "to"}
                THEN ThreadName(query[i][f], names)
                ELSE query[i][f]]]

ThreadsIdle == th = [t \in Threads |-> [pc |-> "idle"]]

ThreadsInit ==
    th \in [Threads -> { [pc |-> "read", call |-> c, tmp |-> 0,
                          names |-> <<>>] : c \in ThreadCalls }]

\* QueryBuilder.id += 1, the read
CounterRead(t) ==
    /\ th[t].pc = "read"
    /\ th' = [th EXCEPT ![t].pc = "write", ![t].tmp = id]
    /\ UNCHANGED <<id, lOp, lIssued, timeVars, compVars, briVars, parVars>>

\* QueryBuilder.id += 1, the write
CounterWrite(t) ==
    /\ th[t].pc = "write"
    /\ id' = th[t].tmp + 1
    /\ th' = [th EXCEPT ![t].pc = "name"]
    /\ UNCHANGED <<lOp, lIssued, timeVars, compVars, briVars, parVars>>

\* eid = f'n{QueryBuilder.id}' and cls_id = f'n{QueryBuilder.id}'; the
\* operation ends after the last node it names
NodeNamed(t) ==
    /\ th[t].pc = "name"
    /\ LET names == Append(th[t].names, NodeId(id))
       IN  th' = [th EXCEPT
                     ![t].names = names,
                     ![t].pc = IF Len(names) = ThreadAlone(th[t].call).id
                               THEN "done"
                               ELSE "read"]
    /\ UNCHANGED <<id, lOp, lIssued, timeVars, compVars, briVars, parVars>>

(***************************************************************************)
(* syntactic_parser.py: SyntacticParser                                    *)
(*                                                                         *)
(* A document is the sequence of its tokens; a token has the position of   *)
(* its head (its own position for a sentence root), its dependency tag,    *)
(* its text and its morphological tag.  Positions count from 1, token.i    *)
(* from 0; 0 stands for the None of prep_first and prep_last.              *)
(***************************************************************************)

\* the most tokens of a document
MaxTokens == 3

\* the sentence roots: a verb in the first person singular, or in the third
RootTokens ==
    { [dep |-> "ROOT", text |-> "merg", tag |-> "Vmip1s"],
      [dep |-> "ROOT", text |-> "merge", tag |-> "Vmip3s"] }

\* the other tokens: the auxiliary "am" with no relation, a preposition, a
\* which and a whose attribute, a subject
DependentTokens ==
    { [dep |-> "-", text |-> "am", tag |-> "Va--1"],
      [dep |-> "prep", text |-> "in", tag |-> "Spsa"],
      [dep |-> "care", text |-> "rosie", tag |-> "Afpfsrn"],
      [dep |-> "al cui", text |-> "mele", tag |-> "Ds1fp-s"],
      [dep |-> "cine", text |-> "ana", tag |-> "Np"] }

RECURSIVE ReachesRoot(_, _, _)
\* following the heads from token i reaches a root within k steps
ReachesRoot(heads, i, k) ==
    \/ heads[i] = i
    \/ k > 0 /\ ReachesRoot(heads, heads[i], k - 1)

\* the head assignments of n tokens that form trees
Heads(n) ==
    { h \in [1..n -> 1..n] : \A i \in 1..n : ReachesRoot(h, i, n) }

\* the documents of n tokens
DocsOfLen(n) ==
    UNION { { [i \in 1..n |-> [head |-> h[i], dep |-> k[i].dep,
                               text |-> k[i].text, tag |-> k[i].tag]] :
              k \in { f \in [1..n -> RootTokens \cup DependentTokens] :
                        \A i \in 1..n : (h[i] = i) <=> (f[i] \in RootTokens) } }
            : h \in Heads(n) }

Docs == UNION { DocsOfLen(n) : n \in 1..MaxTokens }

\* node.children: the tokens whose head is node, in document order
Children(doc, node) ==
    SelectSeq([i \in 1..Len(doc) |-> i],
              LAMBDA c : c # node /\ doc[c].head = node)

\* Span(doc, first, last + 1).text
SpanText(doc, first, last) ==
    Join([i \in 1..(last - first + 1) |-> doc[first + i - 1].text], " ")

RECURSIVE dfs(_, _, _)
RECURSIVE DfsChildren(_, _, _, _)

\* for child in node.children, acc the bounds as the loop has left them
DfsChildren(doc, children, include_all_deps, acc) ==
    IF children = <<>>
    THEN acc
    ELSE LET child == Head(children)
             dep   == doc[child].dep
         IN  IF \/ dep \in {"-", "prep", "cat"}
                \/ include_all_deps /\ dep \in {"care", "ce fel de", "al cui"}
             THEN LET c == dfs(doc, child, include_all_deps)
                  IN  DfsChildren(doc, Tail(children), include_all_deps,
                          IF dep = "prep"
                          THEN [acc EXCEPT !.prep_first = c.first,
                                           !.prep_last = c.last]
                          ELSE [acc EXCEPT
                                   !.first = IF c.first < @ THEN c.first ELSE @,
                                   !.last = IF c.last > @ THEN c.last ELSE @])
             ELSE DfsChildren(doc, Tail(children), include_all_deps, acc)

\* a slip that leaves the anchor out of the bounds when a child is included
dfs_children_only(doc, node, include_all_deps) ==
    LET own == DfsChildren(doc, Children(doc, node), include_all_deps,
                   [first |-> Len(doc) + 1, last |-> 0, prep_first |-> 0,
                    prep_last |-> 0])
    IN  IF own.last = 0
        THEN [own EXCEPT !.first = node, !.last = node]
        ELSE own

\* dfs(node) of __get_dependency_span
dfs(doc, node, include_all_deps) ==
    DfsChildren(doc, Children(doc, node), include_all_deps,
                [first |-> node, last |-> node, prep_first |-> 0,
                 prep_last |-> 0])

\* __get_dependency_span(doc, token, include_all_deps): the span text and
\* the preposition text, with the bounds they were cut at
get_dependency_span(doc, token, include_all_deps) ==
    LET d == dfs(doc, token, include_all_deps)
    IN  [text       |-> SpanText(doc, d.first, d.last),
         prep       |-> IF d.prep_first # 0
                        THEN SpanText(doc, d.prep_first, d.prep_last)
                        ELSE "",
         first      |-> d.first,
         last       |-> d.last,
         prep_first |-> d.prep_first,
         prep_last  |-> d.prep_last]

\* __lemmatize: the pronoun table of __load_lemmas, the noun and verb
\* tables by part of speech, the word itself otherwise
lemmatize(token) ==
    IF token.text \in {"meu", "mea", "mei", "mele"} THEN "eu"
    ELSE IF token.text \in {"lui"} THEN "el"
    ELSE IF token.text \in {"lor"} THEN "ei"
    ELSE IF Head(token.tag) = "V" /\ token.text = "merg" THEN "merge"
    ELSE token.text

RECURSIVE specifiers_unnested(_, _, _)
\* a slip that extracts no specifiers below a whose specifier
specifiers_unnested(doc, parent, i) ==
    IF i > Len(doc)
    THEN <<>>
    ELSE LET token == doc[i]
             span  == get_dependency_span(doc, i, TRUE)
         IN  (IF token.head # parent
              THEN <<>>
              ELSE IF \/ token.dep \in {"care", "ce fel de", "cat"}
                      \/ /\ token.dep = "cat timp"
                         /\ doc[token.head].dep # "ROOT"
              THEN << [question |-> token.dep, pre |-> span.prep,
                       value |-> span.text, lemma |-> span.text,
                       specifiers |-> <<>>] >>
              ELSE IF token.dep = "al cui"
              THEN << [question |-> token.dep, value |-> token.text,
                       lemma |-> lemmatize(token),
                       specifiers |-> <<>>] >>
              ELSE <<>>)
             \o specifiers_unnested(doc, parent, i + 1)

RECURSIVE get_specifiers(_, _)
RECURSIVE SpecifiersFrom(_, _, _)

\* for token in doc of __get_specifiers, from position i on
SpecifiersFrom(doc, parent, i) ==
    IF i > Len(doc)
    THEN <<>>
    ELSE LET token == doc[i]
             span  == get_dependency_span(doc, i, TRUE)
         IN  (IF token.head # parent
              THEN <<>>
              ELSE IF \/ token.dep \in {"care", "ce fel de", "cat"}
                      \/ /\ token.dep = "cat timp"
                         /\ doc[token.head].dep # "ROOT"
              THEN << [question |-> token.dep, pre |-> span.prep,
                       value |-> span.text, lemma |-> span.text,
                       specifiers |-> <<>>] >>
              ELSE IF token.dep = "al cui"
              THEN << [question |-> token.dep, value |-> token.text,
                       lemma |-> lemmatize(token),
                       specifiers |-> get_specifiers(doc, i)] >>
              ELSE <<>>)
             \o SpecifiersFrom(doc, parent, i + 1)

\* __get_specifiers(doc, parent)
get_specifiers(doc, parent) == SpecifiersFrom(doc, parent, 1)

\* TAG_MAP[tag].get('Person') == '1' and TAG_MAP[tag].get('Number') == 'Sing'
FirstPersonSingular(tag) == tag = "Vmip1s"

\* any(t.text == 'am' and t.dep_ == '-' and t.head.dep_ == 'ROOT' for t in doc)
HasAuxiliaryAm(doc) ==
    \E i \in 1..Len(doc) :
        doc[i].text = "am" /\ doc[i].dep = "-" /\ doc[doc[i].head].dep = "ROOT"

\* the subject process synthesizes
InferredSubject ==
    [question |-> "cine", value |-> "eu", lemma |-> "eu", ext_value |-> "eu",
     specifiers |-> <<>>]

RECURSIVE ProcessTokens(_, _, _)
\* for token in doc of process, from position i on; acc holds semantic_roles
\* and inferred_subj
ProcessTokens(doc, i, acc) ==
    IF i > Len(doc)
    THEN acc
    ELSE LET token == doc[i]
             span  == get_dependency_span(doc, i, TRUE)
             roles ==
                 IF token.dep # "-" /\ doc[token.head].dep = "ROOT"
                 THEN Append(acc.semantic_roles,
                          [question |-> token.dep, pre |-> span.prep,
                           value |-> token.text, lemma |-> lemmatize(token),
                           ext_value |-> span.text,
                           specifiers |-> get_specifiers(doc, i)])
                 ELSE acc.semantic_roles
             subj  ==
                 IF /\ token.dep = "ROOT"
                    /\ FirstPersonSingular(token.tag) \/ HasAuxiliaryAm(doc)
                 THEN InferredSubject
                 ELSE acc.inferred_subj
         IN  ProcessTokens(doc, i + 1,
                 [semantic_roles |-> roles, inferred_subj |-> subj])

\* a slip that appends the synthesized subject whatever the roles are
process_always_infer(doc) ==
    LET loop == ProcessTokens(doc, 1, [semantic_roles |-> <<>>,
                                       inferred_subj |-> NoEntity])
    IN  IF loop.inferred_subj # NoEntity
        THEN Append(loop.semantic_roles, loop.inferred_subj)
        ELSE loop.semantic_roles

\* process(message): the semantic roles set on the message
process(doc) ==
    LET loop == ProcessTokens(doc, 1, [semantic_roles |-> <<>>,
                                       inferred_subj |-> NoEntity])
    IN  IF /\ loop.inferred_subj # NoEntity
           /\ ~ \E n \in 1..Len(loop.semantic_roles) :
                  loop.semantic_roles[n].question = "cine"
        THEN Append(loop.semantic_roles, loop.inferred_subj)
        ELSE loop.semantic_roles

ParserIdle ==
    /\ pDoc = <<>>
    /\ pOut = [op |-> None]

ParserInit ==
    /\ pDoc \in Docs
    /\ pOut = [op |-> None]

\* __get_dependency_span(doc, token, include_all_deps)
GetDependencySpan ==
    /\ pOut.op = None
    /\ \E token \in 1..Len(pDoc), include_all_deps \in BOOLEAN :
          pOut' = [op |-> "span", token |-> token,
                   include_all_deps |-> include_all_deps,
                   r |-> get_dependency_span(pDoc, token, include_all_deps)]
    /\ UNCHANGED <<pDoc, timeVars, compVars, legVars, briVars, thrVars>>

\* process(message)
Process ==
    /\ pOut.op = None
    /\ pOut' = [op |-> "process", r |-> process(pDoc)]
    /\ UNCHANGED <<pDoc, timeVars, compVars, legVars, briVars, thrVars>>

\* the tokens of the documents specifiers are extracted from: one root, a
\* direct object, a which, a whose, a how-long and a how-much attribute
SpecifierRootTokens ==
    { [dep |-> "ROOT", text |-> "merge", tag |-> "Vmip3s"] }

SpecifierDependentTokens ==
    { [dep |-> "ce", text |-> "carte", tag |-> "Ncfsrn"],
      [dep |-> "care", text |-> "rosie", tag |-> "Afpfsrn"],
      [dep |-> "al cui", text |-> "mele", tag |-> "Ds1fp-s"],
      [dep |-> "cat timp", text |-> "ore", tag |-> "Ncfp-n"],
      [dep |-> "cat", text |-> "doua", tag |-> "Mcfp-l"] }

\* the documents of n tokens over the given tokens
DocsOver(n, roots, dependents) ==
    UNION { { [i \in 1..n |-> [head |-> h[i], dep |-> k[i].dep,
                               text |-> k[i].text, tag |-> k[i].tag]] :
              k \in { f \in [1..n -> roots \cup dependents] :
                        \A i \in 1..n : (h[i] = i) <=> (f[i] \in roots) } }
            : h \in Heads(n) }

SpecifierDocs ==
    UNION { DocsOver(n, SpecifierRootTokens, SpecifierDependentTokens) :
            n \in 1..MaxTokens }

SpecifiersInit ==
    /\ pDoc \in SpecifierDocs
    /\ pOut = [op |-> None]

\* __get_specifiers(doc, parent)
GetSpecifiers ==
    /\ pOut.op = None
    /\ \E parent \in 1..Len(pDoc) :
          pOut' = [op |-> "specifiers", parent |-> parent,
                   r |-> get_specifiers(pDoc, parent)]
    /\ UNCHANGED <<pDoc, timeVars, compVars, legVars, briVars, thrVars>>

(***************************************************************************)
(* mem_assistant/kb_mem_assistant.py: DbBridge over the uuid QueryBuilder  *)
(*                                                                         *)
(* u is the sequence of the values uuid().hex returns during the call.     *)
(* kind is the transport operation the statement is handed to: "update"    *)
(* for execute_sparql_update, "query" for execute_sparql_query.            *)
(***************************************************************************)

\* '?' where the code expects an entity (the default subject)
UnknownEntity == [question |-> "?"]

\* DbBridge.set_value
sparql_set_value(entity, v, type, u) ==
    LET c == sparql_create_noun_phrase(entity, TRUE, u, 0)
        q == IF type = "VAL"
             THEN Append(c.query,
                      FactClause("insert", c.eid, type, "", "", v))
             ELSE IF type = "LOC"
             THEN LET l == sparql_create_noun_phrase(v, FALSE, u, c.id)
                  IN  Append(c.query \o l.query,
                          EdgeClause("insert", c.eid, type, l.eid))
             ELSE IF type \in TimeTypes
             THEN Append(c.query,
                      FactClause("insert", c.eid, type, "time", "", v))
             ELSE c.query
    IN  [raised |-> FALSE, wrap |-> "insert_data", query |-> q,
         kind |-> "update", columns |-> <<>>]

\* DbBridge.get_value
sparql_get_value(entity, type, u) ==
    LET m == sparql_match_noun_phrase(entity, u, 0)
    IN  [raised |-> FALSE, wrap |-> "select",
         query |-> Append(m.query,
                       ReturnClause(m.eid, type, "val", <<"entity", "val">>)),
         kind |-> "query", columns |-> <<"val", "entity">>]

RECURSIVE SparqlStoreLocations(_, _, _, _, _)
SparqlStoreLocations(locs, i, act, u, acc) ==
    IF i > Len(locs)
    THEN acc
    ELSE LET l == sparql_create_noun_phrase(locs[i], FALSE, u, acc.id)
         IN  SparqlStoreLocations(locs, i + 1, act, u,
                 [query |-> Append(acc.query \o l.query,
                               EdgeClause("insert", act, "LOC", l.eid)),
                  id    |-> l.id])

SparqlStoreTimes(times, act) ==
    [i \in 1..Len(times) |->
        FactClause("insert", act, times[i][2], "time", "", times[i][1])]

\* DbBridge.store_action; the action node attached to the subject is a
\* blank node, act a fresh uuid
sparql_store_action(components, u) ==
    IF components.subj = UnknownEntity
    THEN [raised |-> TRUE]
    ELSE
    LET s   == sparql_create_noun_phrase(components.subj, TRUE, u, 0)
        act == u[s.id + 1]
        q1  == Append(s.query,
                   ActionClause("insert", s.eid, "", components.action))
        ce  == IF components.ce # NoEntity
               THEN LET o == sparql_create_noun_phrase(components.ce, FALSE, u,
                                                       s.id + 1)
                    IN  [query |-> Append(q1 \o o.query,
                                      EdgeClause("insert", act, "CE", o.eid)),
                         id    |-> o.id]
               ELSE [query |-> q1, id |-> s.id + 1]
        lo  == SparqlStoreLocations(components.loc, 1, act, u, ce)
    IN  [raised |-> FALSE, wrap |-> "insert_data",
         query |-> lo.query \o SparqlStoreTimes(components.time, act),
         kind |-> "query", columns |-> <<>>]

RECURSIVE SparqlMatchLocations(_, _, _, _)
SparqlMatchLocations(locs, i, u, acc) ==
    IF i > Len(locs)
    THEN acc
    ELSE LET l == sparql_match_noun_phrase(locs[i], u, acc.id)
         IN  SparqlMatchLocations(locs, i + 1, u,
                 [query |-> Append(acc.query \o l.query,
                               EdgeClause("match", "act", "LOC", l.eid)),
                  id    |-> l.id,
                  nodes |-> Append(acc.nodes, l.eid)])

SparqlMatchTimes(times) ==
    [i \in 1..Len(times) |->
        FactClause("match", "act", times[i][2], "", "", times[i][1])]

\* a slip that collects the direct object before the subject
sparql_get_action_time_object_first(components, info_type, u) ==
    IF components.subj = UnknownEntity
    THEN [raised |-> TRUE]
    ELSE
    LET s  == sparql_match_noun_phrase(components.subj, u, 0)
        q1 == Append(s.query,
                  ActionClause("match", s.eid, "act", components.action))
        ce == IF components.ce # NoEntity
              THEN LET o == sparql_match_noun_phrase(components.ce, u, s.id)
                   IN  [query |-> Append(q1 \o o.query,
                                     EdgeClause("match", "act", "CE", o.eid)),
                        id    |-> o.id,
                        nodes |-> <<o.eid, s.eid>>]
              ELSE [query |-> q1, id |-> s.id, nodes |-> <<s.eid>>]
        lo == SparqlMatchLocations(components.loc, 1, u, ce)
    IN  [raised |-> FALSE, wrap |-> "select",
         query |-> Append(lo.query \o SparqlMatchTimes(components.time),
                       ReturnClause("act", info_type, "time", <<"*">>)),
         kind |-> "query", columns |-> <<"time">> \o lo.nodes]

\* DbBridge.get_action_time
sparql_get_action_time(components, info_type, u) ==
    IF components.subj = UnknownEntity
    THEN [raised |-> TRUE]
    ELSE
    LET s  == sparql_match_noun_phrase(components.subj, u, 0)
        q1 == Append(s.query,
                  ActionClause("match", s.eid, "act", components.action))
        ce == IF components.ce # NoEntity
              THEN LET o == sparql_match_noun_phrase(components.ce, u, s.id)
                   IN  [query |-> Append(q1 \o o.query,
                                     EdgeClause("match", "act", "CE", o.eid)),
                        id    |-> o.id,
                        nodes |-> <<s.eid, o.eid>>]
              ELSE [query |-> q1, id |-> s.id, nodes |-> <<s.eid>>]
        lo == SparqlMatchLocations(components.loc, 1, u, ce)
    IN  [raised |-> FALSE, wrap |-> "select",
         query |-> Append(lo.query \o SparqlMatchTimes(components.time),
                       ReturnClause("act", info_type, "time", <<"*">>)),
         kind |-> "query", columns |-> <<"time">> \o lo.nodes]

(***************************************************************************)
(* custom_actions.py: extract_sentence_components and the store actions    *)
(***************************************************************************)

RECURSIVE Words(_, _)
\* str.split(): the words of s, cur the word being read
Words(s, cur) ==
    IF s = ""
    THEN IF cur = "" THEN <<>> ELSE <<cur>>
    ELSE IF Head(s) = " "
    THEN (IF cur = "" THEN <<>> ELSE <<cur>>) \o Words(Tail(s), "")
    ELSE Words(Tail(s), cur \o Head(s))

Split(s) == Words(s, "")

\* any(ask_particle in ent['ext_value'].split() for ask_particle in [...])
HasAskParticle(ent) ==
    \E i \in 1..Len(Split(ent.ext_value)) :
        Split(ent.ext_value)[i] \in {"cand", "cat", "ce", "care"}

\* the first loop: action = ent['ext_value'] of the last ROOT role
RECURSIVE RootExtValue(_, _)
RootExtValue(roles, action) ==
    IF roles = <<>> THEN action
    ELSE RootExtValue(Tail(roles),
             IF Head(roles).question = "ROOT"
             THEN Head(roles).ext_value
             ELSE action)

RECURSIVE regroup_roles_keep_questions(_, _, _)
\* a slip that keeps the time roles that only formulate the question
regroup_roles_keep_questions(roles, action, components) ==
    IF roles = <<>>
    THEN components
    ELSE LET ent == Head(roles)
             next ==
                 IF ent.question = "cine"
                 THEN [components EXCEPT !.subj = ent]
                 ELSE IF ent.question = "ROOT"
                 THEN [components EXCEPT !.action = ent.ext_value]
                 ELSE IF ent.question = "ce"
                 THEN [components EXCEPT !.ce = ent]
                 ELSE IF ent.question = "unde"
                 THEN [components EXCEPT !.loc = Append(@, ent)]
                 ELSE IF ent.question \in {"cand", "cat timp"}
                 THEN [components EXCEPT
                          !.time = Append(@, <<PhraseOf(ent, "ext_value"),
                                               get_time_type(ent, action)>>)]
                 ELSE components
         IN  regroup_roles_keep_questions(Tail(roles), action, next)

RECURSIVE RegroupRoles(_, _, _)
\* the second loop
RegroupRoles(roles, action, components) ==
    IF roles = <<>>
    THEN components
    ELSE LET ent == Head(roles)
             next ==
                 IF ent.question = "cine"
                 THEN [components EXCEPT !.subj = ent]
                 ELSE IF ent.question = "ROOT"
                 THEN [components EXCEPT !.action = ent.ext_value]
                 ELSE IF ent.question = "ce"
                 THEN [components EXCEPT !.ce = ent]
                 ELSE IF ent.question = "unde"
                 THEN [components EXCEPT !.loc = Append(@, ent)]
                 ELSE IF ent.question \in {"cand", "cat timp"}
                         /\ ~HasAskParticle(ent)
                 THEN [components EXCEPT
                          !.time = Append(@, <<PhraseOf(ent, "ext_value"),
                                               get_time_type(ent, action)>>)]
                 ELSE components
         IN  RegroupRoles(Tail(roles), action, next)

\* the regrouped components, as extract_sentence_components returns them
extract_sentence_components(semantic_roles) ==
    RegroupRoles(semantic_roles, RootExtValue(semantic_roles, None),
                 [subj |-> UnknownEntity, action |-> "?", ce |-> NoEntity,
                  loc |-> <<>>, time |-> <<>>])

\* what a handler does with the roles of a message: it calls the bridge,
\* or utters entity_extraction_failure_msg, or raises before any call
Call(op, stmt) == [kind |-> "call", op |-> op, stmt |-> stmt]
Fail == [kind |-> "fail"]
Raise == [kind |-> "raise"]

RECURSIVE StoreAttributeRoles(_, _)
\* the loop of ActionStoreAttribute.run
StoreAttributeRoles(roles, acc) ==
    IF roles = <<>>
    THEN acc
    ELSE LET ent == Head(roles)
         IN  StoreAttributeRoles(Tail(roles),
                 IF ent.question = "cine"
                 THEN [acc EXCEPT !.entity = ent]
                 ELSE IF ent.question = "care este"
                 THEN [acc EXCEPT !.value = ent.value]
                 ELSE acc)

\* ActionStoreAttribute.run, up to the bridge call
action_store_attr(roles, u) ==
    LET s == StoreAttributeRoles(roles, [entity |-> NoEntity, value |-> None])
    IN  IF s.entity # NoEntity /\ s.value \notin {None, ""}
        THEN Call("set_value", sparql_set_value(s.entity, s.value, "VAL", u))
        ELSE Fail

RECURSIVE GetAttributeRoles(_, _)
\* the loop of ActionGetAttribute.run
GetAttributeRoles(roles, entity) ==
    IF roles = <<>>
    THEN entity
    ELSE LET ent == Head(roles)
         IN  GetAttributeRoles(Tail(roles),
                 IF ent.question \in {"ce", "cine"} /\ ent.value # "care"
                 THEN ent
                 ELSE entity)

\* ActionGetAttribute.run, up to the bridge call
action_get_attr(roles, u) ==
    LET entity == GetAttributeRoles(roles, NoEntity)
    IN  IF entity # NoEntity
        THEN Call("get_value", sparql_get_value(entity, "VAL", u))
        ELSE Fail

RECURSIVE LocationRoles(_, _)
\* the loop of ActionStoreLocation.run; ActionGetLocation.run has its first
\* branch only
LocationRoles(roles, acc) ==
    IF roles = <<>>
    THEN acc
    ELSE LET ent == Head(roles)
         IN  LocationRoles(Tail(roles),
                 IF \/ ent.question = "ce"
                    \/ ent.question = "cine" /\ acc.entity = NoEntity
                 THEN [acc EXCEPT !.entity = ent]
                 ELSE IF ent.question = "unde"
                 THEN [acc EXCEPT !.location = ent]
                 ELSE acc)

\* ActionStoreLocation.run, up to the bridge call
action_store_location(roles, u) ==
    LET s == LocationRoles(roles, [entity |-> NoEntity, location |-> NoEntity])
    IN  IF s.entity # NoEntity /\ s.location # NoEntity
        THEN Call("set_value", sparql_set_value(s.entity, s.location, "LOC", u))
        ELSE Fail

\* ActionGetLocation.run, up to the bridge call
action_get_location(roles, u) ==
    LET s == LocationRoles(roles, [entity |-> NoEntity, location |-> NoEntity])
    IN  IF s.entity # NoEntity
        THEN Call("get_value", sparql_get_value(s.entity, "LOC", u))
        ELSE Fail

RECURSIVE TimeRoles(_, _)
\* the loop of ActionGetTime.run and ActionStoreTime.run: times holds the
\* time roles in order, of which the first is read when asking and the last
\* when storing
TimeRoles(roles, acc) ==
    IF roles = <<>>
    THEN acc
    ELSE LET ent == Head(roles)
         IN  TimeRoles(Tail(roles),
                 IF ent.question \in {"ce", "cine"}
                 THEN [acc EXCEPT !.entity = ent,
                                  !.simple = @ /\ acc.entity = NoEntity]
                 ELSE IF ent.question \in {"cand", "cat timp"}
                 THEN [acc EXCEPT !.times = Append(@, ent)]
                 ELSE IF ent.question = "ROOT"
                 THEN [acc EXCEPT !.action = ent.lemma]
                 ELSE [acc EXCEPT !.simple = FALSE])

TimeRolesOf(roles) ==
    TimeRoles(roles, [entity |-> NoEntity, action |-> None, times |-> <<>>,
                      simple |-> TRUE])

\* ActionGetTime.run, up to the bridge call; times[0] of an empty list
\* raises IndexError
action_get_time(roles, u) ==
    LET s == TimeRolesOf(roles)
    IN  IF s.times = <<>>
        THEN Raise
        ELSE LET info_type == get_time_type(s.times[1], s.action)
             IN  IF s.entity = NoEntity
                 THEN Fail
                 ELSE IF s.simple
                 THEN Call("get_value", sparql_get_value(s.entity, info_type, u))
                 ELSE Call("get_action_time",
                           sparql_get_action_time(
                               extract_sentence_components(roles), info_type, u))

\* ActionStoreTime.run, up to the bridge call; a time of None raises
\* TypeError in get_time_type, a time without pre KeyError
action_store_time(roles, u) ==
    LET s == TimeRolesOf(roles)
    IN  IF s.times = <<>>
        THEN Raise
        ELSE LET time      == s.times[Len(s.times)]
                 info_type == get_time_type(time, s.action)
             IN  IF s.entity = NoEntity
                 THEN Fail
                 ELSE IF s.simple
                 THEN IF "pre" \in DOMAIN time
                      THEN Call("set_value",
                                sparql_set_value(s.entity,
                                    Strip(time.pre \o " " \o time.ext_value),
                                    info_type, u))
                      ELSE Raise
                 ELSE Call("store_action",
                           sparql_store_action(
                               extract_sentence_components(roles), u))

(***************************************************************************)
(* The messages the actions are run on: the semantic roles the parser      *)
(* attaches to a message, the inferred subject last                        *)
(***************************************************************************)

Telefon ==
    [question |-> "cine", pre |-> "", value |-> "telefonul",
     lemma |-> "telefon", ext_value |-> "telefonul meu",
     specifiers |-> <<WhoseSpecifier(<<>>)>>]
AttributeRole ==
    [question |-> "care este", pre |-> "", value |-> "rosie",
     lemma |-> "rosu", ext_value |-> "rosie", specifiers |-> <<>>]
RootRole ==
    [question |-> "ROOT", pre |-> "", value |-> "merg", lemma |-> "merge",
     ext_value |-> "merg", specifiers |-> <<>>]
TimeRole ==
    [question |-> "cand", pre |-> "la", value |-> "ora", lemma |-> "ora",
     ext_value |-> "ora 5", specifiers |-> <<>>]
DurationRole ==
    [question |-> "cat timp", pre |-> "", value |-> "ore", lemma |-> "ora",
     ext_value |-> "2 ore", specifiers |-> <<>>]
AskRole ==
    [question |-> "cand", pre |-> "", value |-> "cand", lemma |-> "cand",
     ext_value |-> "cand", specifiers |-> <<>>]

\* a time that is a fact and holds the word "care": "in ziua care vine"
RelativeTimeRole ==
    [question |-> "cand", pre |-> "in", value |-> "ziua", lemma |-> "zi",
     ext_value |-> "ziua care vine", specifiers |-> <<>>]

Messages ==
    { <<Telefon, AttributeRole>>,
      <<Eu, RootRole, Carte, Casa, TimeRole, RelativeTimeRole, DurationRole>>,
      <<AttributeRole>>,
      <<CarteaRosie, RootRole, Casa>>,
      <<Carte, RootRole>>,
      <<Carte, RootRole, TimeRole>>,
      <<RootRole, Carte, Casa, TimeRole, Eu>>,
      <<RootRole, DurationRole>>,
      <<AskRole, RootRole, Carte>>,
      <<AskRole, RootRole, CarteaRosie, CasaMeaDeLemn, Eu>>,
      <<Carte, Casa, TimeRole>> }

(***************************************************************************)
(* A message handled by an action: the action's run up to the bridge call, *)
(* the requests sparql_client sends, and the rest of the bridge method and *)
(* of the action                                                           *)
(***************************************************************************)

\* num_retries=5
NumRetries == 5

\* None where the code expects a result set
NoResult == [status |-> None]

\* r.status_code >= 400
HttpError == [status |-> "error"]

\* r.status_code < 400 to a POST
HttpOk == [status |-> "ok"]

entity_extraction_failure_msg == "Nu am putut extrage entitatile"

\* dispatcher.utter_message(text) and dispatcher.utter_message(template=...)
Text(s) == [text |-> s]
Template(s) == [template |-> s]

StoreOps == {"set_value", "store_action"}
GetOps == {"get_value", "get_action_time"}

BridgeIdle ==
    /\ bPc = "idle"
    /\ bCall = [handler |-> None]
    /\ bRetries = 0
    /\ bHttp = <<>>
    /\ bAnswer = NoResult
    /\ bOut = [status |-> None]
    /\ bUtter = <<>>

\* the run of an action up to the bridge call: the statement is handed to
\* execute_sparql_query or execute_sparql_update, or no call is made
Begin(handler, roles, plan) ==
    /\ bPc = "idle"
    /\ bCall' = [handler |-> handler, roles |-> roles, plan |-> plan]
    /\ bHttp' = <<>>
    /\ bAnswer' = NoResult
    /\ IF plan.kind = "call" /\ ~plan.stmt.raised
       THEN /\ bPc' = IF plan.stmt.kind = "query" THEN "get" ELSE "post"
            /\ bRetries' = NumRetries
            /\ bOut' = [status |-> None]
            /\ bUtter' = <<>>
       ELSE /\ bPc' = "done"
            /\ bRetries' = 0
            /\ bOut' = IF plan.kind = "fail"
                       THEN [status |-> "not called"]
                       ELSE [status |-> "raised"]
            /\ bUtter' = IF plan.kind = "fail"
                         THEN <<Text(entity_extraction_failure_msg)>>
                         ELSE <<>>
    /\ UNCHANGED <<timeVars, compVars, legVars, restVars>>

ActionStoreAttribute ==
    \E roles \in Messages, u \in UuidStreams :
        Begin("action_store_attr", roles, action_store_attr(roles, u))

ActionGetAttribute ==
    \E roles \in Messages, u \in UuidStreams :
        Begin("action_get_attr", roles, action_get_attr(roles, u))

ActionStoreLocation ==
    \E roles \in Messages, u \in UuidStreams :
        Begin("action_store_location", roles, action_store_location(roles, u))

ActionGetLocation ==
    \E roles \in Messages, u \in UuidStreams :
        Begin("action_get_location", roles, action_get_location(roles, u))

ActionGetTime ==
    \E roles \in Messages, u \in UuidStreams :
        Begin("action_get_time", roles, action_get_time(roles, u))

ActionStoreTime ==
    \E roles \in Messages, u \in UuidStreams :
        Begin("action_store_time", roles, action_store_time(roles, u))

\* a slip that retries once more when no retry is left
get_one_retry_more(outcome, num_retries) ==
    IF outcome = Raises /\ num_retries >= 0
    THEN [again |-> TRUE, num_retries |-> num_retries - 1]
    ELSE [again  |-> FALSE,
          result |-> IF outcome.status = "rows" THEN outcome ELSE NoResult]

\* sparql_client.get after one request: bindings or None below status 400,
\* None from status 400 on, and on an exception the call again with one
\* retry less while retries are left, None when none is
get(outcome, num_retries) ==
    IF outcome = Raises /\ num_retries > 0
    THEN [again |-> TRUE, num_retries |-> num_retries - 1]
    ELSE [again  |-> FALSE,
          result |-> IF outcome.status = "rows" THEN outcome ELSE NoResult]

\* what a GET request may end in: rows, an answer without bindings, a
\* status of 400 or more, an exception
GetOutcomes == {Rows(s) : s \in RowOrders} \cup {NoBindings, HttpError, Raises}

\* sparql_client.get, one request
SparqlGet ==
    /\ bPc = "get"
    /\ \E outcome \in GetOutcomes :
          /\ bHttp' = Append(bHttp, [method |-> "GET", param |-> "query",
                                     outcome |-> outcome.status])
          /\ IF get(outcome, bRetries).again
             THEN /\ bRetries' = get(outcome, bRetries).num_retries
                  /\ UNCHANGED <<bPc, bAnswer>>
             ELSE /\ bPc' = "back"
                  /\ bAnswer' = get(outcome, bRetries).result
                  /\ UNCHANGED bRetries
    /\ UNCHANGED <<bCall, bOut, bUtter, timeVars, compVars, legVars, restVars>>

\* execute_sparql_update: one POST, an exception logged, nothing returned
SparqlPost ==
    /\ bPc = "post"
    /\ \E outcome \in {HttpOk, HttpError, Raises} :
          bHttp' = Append(bHttp, [method |-> "POST", param |-> "update",
                                  outcome |-> outcome.status])
    /\ bPc' = "back"
    /\ bAnswer' = NoResult
    /\ UNCHANGED <<bCall, bRetries, bOut, bUtter, timeVars, compVars, legVars, restVars>>

\* the bridge method after the transport returned: a store method ends
\* without a return statement; a get method iterates over the result, which
\* raises TypeError on None, and formats the values
BridgeReturn(op, columns, result) ==
    IF op \in StoreOps
    THEN [status |-> "returned", value |-> None]
    ELSE IF result = NoResult
    THEN [status |-> "raised"]
    ELSE [status |-> "returned",
          value  |-> prettify_result(
                         SparqlValues(columns, Bindings(columns, result.rows)))]

\* the action after the bridge method: if not success / if result
Utterances(op, out) ==
    IF out.status = "raised"
    THEN <<>>
    ELSE IF op \in StoreOps
    THEN IF out.value = None
         THEN <<Template("utter_error_storing_data")>>
         ELSE <<>>
    ELSE IF out.value # ""
    THEN <<Text(out.value)>>
    ELSE <<Template("utter_error_getting_data")>>

\* the rest of the bridge method and of the action's run
Return ==
    /\ bPc = "back"
    /\ bPc' = "done"
    /\ bOut' = BridgeReturn(bCall.plan.op, bCall.plan.stmt.columns, bAnswer)
    /\ bUtter' = Utterances(bCall.plan.op, bOut')
    /\ UNCHANGED <<bCall, bRetries, bHttp, bAnswer, timeVars, compVars,
                   legVars, restVars>>

\* the action server waits for the next message
NextMessage ==
    /\ bPc = "done"
    /\ bPc' = "idle"
    /\ bCall' = [handler |-> None]
    /\ bRetries' = 0
    /\ bHttp' = <<>>
    /\ bAnswer' = NoResult
    /\ bOut' = [status |-> None]
    /\ bUtter' = <<>>
    /\ UNCHANGED <<timeVars, compVars, legVars, restVars>>

Init == TimeIdle /\ CompIdle /\ LegacyIdle /\ BridgeIdle /\ ThreadsIdle
    /\ ParserIdle

Next ==
    \/ ActionStoreAttribute
    \/ ActionGetAttribute
    \/ ActionStoreLocation
    \/ ActionGetLocation
    \/ ActionGetTime
    \/ ActionStoreTime
    \/ SparqlGet
    \/ SparqlPost
    \/ Return
    \/ NextMessage

Spec == Init /\ [][Next]_vars

InitThreads ==
    /\ TimeIdle /\ CompIdle /\ LegacyIdle /\ BridgeIdle /\ ParserIdle
    /\ ThreadsInit

NextThreads ==
    \E t \in Threads : CounterRead(t) \/ CounterWrite(t) \/ NodeNamed(t)

SpecThreads == InitThreads /\ [][NextThreads]_vars

InitParse ==
    /\ TimeIdle /\ CompIdle /\ LegacyIdle /\ BridgeIdle /\ ThreadsIdle
    /\ ParserInit

NextParse == GetDependencySpan \/ Process

SpecParse == InitParse /\ [][NextParse]_vars

InitSpecifiers ==
    /\ TimeIdle /\ CompIdle /\ LegacyIdle /\ BridgeIdle /\ ThreadsIdle
    /\ SpecifiersInit

NextSpecifiers == GetSpecifiers

SpecSpecifiers == InitSpecifiers /\ [][NextSpecifiers]_vars

InitLegacy == TimeIdle /\ CompIdle /\ LegacyIdle /\ BridgeIdle /\ ThreadsIdle
    /\ ParserIdle

NextLegacy ==
    \/ LegacySetValue
    \/ LegacyGetValue
    \/ LegacyStoreAction
    \/ LegacyGetActionTime
    \/ LegacyReset

SpecLegacy == InitLegacy /\ [][NextLegacy]_vars

InitCompile == TimeIdle /\ CompInit /\ LegacyIdle /\ BridgeIdle /\ ThreadsIdle
    /\ ParserIdle

NextCompile == Create \/ Match \/ MatchAgain \/ SparqlCreate \/ SparqlMatch

SpecCompile == InitCompile /\ [][NextCompile]_vars

InitTime == TimeInit /\ CompIdle /\ LegacyIdle /\ BridgeIdle /\ ThreadsIdle
    /\ ParserIdle

NextTime == GetTimeType \/ GetTimeTypeAgain

SpecTime == InitTime /\ [][NextTime]_vars

(***************************************************************************)
(* The temporal classifier's claims                                        *)
(***************************************************************************)

\* the phrase the classifier reads: preposition, a space, the extended text,
\* stripped
tPhrase == PhraseOf(tEnt, "ext_value")

StartRule == StartsWith(tPhrase, "de ") \/ tAction \in {"incepe", "porni"}

EndRule ==
    \/ StartsWith(tPhrase, "pana ")
    \/ tAction \in {"termina", "sfarsi", "incheia", "finaliza"}

HowLong == tEnt.question = "cat timp"

\* C1: the rules apply in a fixed order and the first match wins: the tag
\* is TIME_START whenever the phrase starts with "de " or the action is a
\* begin verb, even if an end or how-long condition holds too; otherwise it
\* is TIME_END whenever the phrase starts with "pana " or the action is an
\* end verb, even if the role is how-long.
C1_RuleOrder ==
    tType # None =>
        /\ StartRule => tType = "TIME_START"
        /\ (~StartRule /\ EndRule) => tType = "TIME_END"

\* a how-long role whose phrase starts with "de " under an end verb is filed
\* as a start
C1_Witness ==
    /\ tType = "TIME_START"
    /\ StartsWith(tPhrase, "de ")
    /\ tAction = "termina"
    /\ HowLong

\* C2: when neither the start nor the end rule matches, the tag is
\* TIME_POINT for a how-long role whose phrase starts with one of the
\* absolute-time particles acum, peste, dupa, la (the particle as a leading
\* word, a space after it), TIME_DURATION for a how-long role without such
\* a particle or for a phrase equal to "cat timp", and TIME_POINT in every
\* remaining case.
C2_LaterRules ==
    (tType # None /\ ~StartRule /\ ~EndRule) =>
        tType =
            IF HowLong
               /\ \E p \in {"acum ", "peste ", "dupa ", "la "} :
                     StartsWith(tPhrase, p)
            THEN "TIME_POINT"
            ELSE IF HowLong \/ tPhrase = "cat timp"
            THEN "TIME_DURATION"
            ELSE "TIME_POINT"

\* a how-long role with an absolute-time particle is filed as a point
C2_Witness ==
    /\ tType = "TIME_POINT"
    /\ HowLong
    /\ StartsWith(tPhrase, "la ")
    /\ ~StartRule /\ ~EndRule

\* C3: the classification is total and deterministic: for every role
\* record, with or without a preposition field, and every action, an absent
\* one included, the call returns one tag, the same tag when made again on
\* the same arguments, it leaves the record as it was, and the tag is one
\* of TIME_POINT, TIME_START, TIME_END, TIME_DURATION.
C3_TotalDeterministic ==
    /\ tType # None =>
          tType \in {"TIME_POINT", "TIME_START", "TIME_END", "TIME_DURATION"}
    /\ tAgain # None => tAgain = tType
    /\ tEnt = tEnt0

\* a record without preposition field and an absent action, classified
\* twice
C3_Witness ==
    /\ "pre" \notin DOMAIN tEnt
    /\ tAction = None
    /\ HowLong
    /\ tType = "TIME_DURATION"
    /\ tAgain = "TIME_DURATION"

(***************************************************************************)
(* The compiler's claims                                                   *)
(***************************************************************************)

\* the clauses of a statement that emit a node
NodeClauses(query) == SelectSeq(query, LAMBDA c : c.k = "node")

NodeCount(query) == Len(NodeClauses(query))

\* the nodes the recursive compiles of the specifiers emit, each specifier
\* compiled on its own
RECURSIVE SpecifierNodes(_)
SpecifierNodes(specs) ==
    IF specs = <<>> THEN 0
    ELSE NodeCount(query_create_noun_phrase(Head(specs), TRUE, 0).query)
         + SpecifierNodes(Tail(specs))

RECURSIVE SparqlSpecifierNodes(_, _)
SparqlSpecifierNodes(specs, u) ==
    IF specs = <<>> THEN 0
    ELSE NodeCount(sparql_create_noun_phrase(Head(specs), TRUE, u, 0).query)
         + SparqlSpecifierNodes(Tail(specs), u)

\* the entities of the tree that have specifiers
RECURSIVE InnerEntities(_)
RECURSIVE InnerEntitiesOf(_)
InnerEntities(entity) ==
    (IF entity.specifiers = <<>> THEN 0 ELSE 1)
    + InnerEntitiesOf(entity.specifiers)
InnerEntitiesOf(specs) ==
    IF specs = <<>> THEN 0
    ELSE InnerEntities(Head(specs)) + InnerEntitiesOf(Tail(specs))

CreateDone == cOut.op \in {"create", "sparql_create"}

\* the nodes the call itself emits, the specifiers' compiles left out
DirectNodes ==
    NodeCount(cOut.r.query)
    - (IF cOut.op = "create"
       THEN SpecifierNodes(cEntity.specifiers)
       ELSE SparqlSpecifierNodes(cEntity.specifiers, cUuids))

\* C7 as stated: for an entity with empty specifiers the create compile
\* emits exactly one node; for an entity with k >= 1 specifiers the call
\* itself emits 1 + k direct nodes, plus whatever each specifier's recursive
\* compile contributes.
C7_AsStated ==
    CreateDone =>
        DirectNodes = IF cEntity.specifiers = <<>>
                      THEN 1
                      ELSE 1 + Len(cEntity.specifiers)

\* C7 amended: for an entity with empty specifiers the create compile emits
\* exactly one node; for an entity with k >= 1 specifiers the call itself
\* emits exactly two direct nodes, the Class node and the Instance node,
\* whatever k, plus whatever each specifier's recursive compile contributes;
\* over a nested tree that makes one node per entity plus one per entity
\* that has specifiers.
C7_NodeCount ==
    CreateDone =>
        /\ DirectNodes = IF cEntity.specifiers = <<>> THEN 1 ELSE 2
        /\ NodeCount(cOut.r.query)
              = EntitySize(cEntity) + InnerEntities(cEntity)

\* two specifiers, one of them a whose specifier with a specifier of its own
C7_Witness ==
    /\ cOut.op = "create"
    /\ Len(cEntity.specifiers) = 2
    /\ \E i \in 1..2 : cEntity.specifiers[i].specifiers # <<>>
    /\ NodeCount(cOut.r.query) = 6

\* the composite surface of an entity: its own preposition-plus-value text,
\* then the composite surfaces of its specifiers in list order, a single
\* space before each
RECURSIVE CompositeSurface(_)
RECURSIVE CompositeSurfaces(_)
CompositeSurface(entity) ==
    PhraseOf(entity, "value") \o CompositeSurfaces(entity.specifiers)
CompositeSurfaces(specs) ==
    IF specs = <<>> THEN ""
    ELSE " " \o CompositeSurface(Head(specs)) \o CompositeSurfaces(Tail(specs))

CarteRosie ==
    [question |-> "ce", pre |-> "", value |-> "carte", lemma |-> "carte",
     ext_value |-> "carte",
     specifiers |-> << [question |-> "care", pre |-> "", value |-> "rosie",
                        lemma |-> "rosie", specifiers |-> <<>>] >>]

\* the statement of the example, from the identifiers the call takes:
\* e the Instance, c the Class, s the specifier's node
CarteRosieStatement(verb, inner, link, e, c, s) ==
    << [k |-> "node", verb |-> verb, id |-> c, label |-> "class",
        value |-> "carte", pre |-> ""],
       [k |-> "node", verb |-> link, id |-> e, label |-> "instance",
        isa |-> c],
       [k |-> "node", verb |-> inner, id |-> s, label |-> "class",
        value |-> "rosie", pre |-> ""],
       [k |-> "edge", verb |-> link, from |-> e, type |-> "SPEC", to |-> s],
       [k |-> "set", id |-> e, value |-> "carte rosie"] >>

\* C8: the entity "carte" with the one which-specifier "rosie" compiles in
\* create mode to a Class node for "carte", an Instance node with an is-a
\* edge to that Class, a node of its own for "rosie", a specifier edge from
\* the Instance to that node, and the Instance's value "carte rosie"; and
\* the composite surface of every entity is its own preposition-plus-value
\* text followed by the composite surfaces of its specifiers in list order,
\* single spaces between them.
C8_CompositeSurface ==
    CreateDone =>
        /\ cOut.r.string = CompositeSurface(cEntity)
        /\ cEntity.specifiers # <<>> =>
              cOut.r.query[Len(cOut.r.query)]
                 = [k |-> "set", id |-> cOut.r.eid,
                    value |-> CompositeSurface(cEntity)]
        /\ (cEntity = CarteRosie /\ cOut.op = "create") =>
              cOut.r.query =
                  CarteRosieStatement(IF cFlag THEN "merge" ELSE "create",
                                      "merge", "create", NodeId(cId0 + 1),
                                      NodeId(cId0 + 2), NodeId(cId0 + 3))
        /\ (cEntity = CarteRosie /\ cOut.op = "sparql_create") =>
              cOut.r.query =
                  CarteRosieStatement("insert", "insert", "insert", cUuids[1],
                                      cUuids[2], cUuids[3])

\* the example compiled in create mode
C8_Witness ==
    /\ cOut.op = "create"
    /\ cEntity = CarteRosie
    /\ ~cFlag
    /\ cOut.r.string = "carte rosie"

MatchDone == cOut.op \in {"match", "match2", "sparql_match"}

\* the identifiers of the patterns of a match statement, in text order
PatternIds(query) ==
    LET ps == SelectSeq(query, LAMBDA c : c.k = "pattern")
    IN  [i \in 1..Len(ps) |-> ps[i].id]

\* C9: query_match_noun_phrase emits no creation (create / merge / insert)
\* clause for any entity of any nesting depth; compiled twice on the same
\* entity from the same counter value it emits the same statement; and the
\* identifiers are taken in strictly increasing order within the call.
C9_MatchOnly ==
    /\ MatchDone =>
          \A i \in 1..Len(cOut.r.query) :
              /\ cOut.r.query[i].verb = "match"
              /\ cOut.r.query[i].k \in {"pattern", "edge"}
    /\ cOut.op \in {"match", "match2"} =>
          /\ PatternIds(cOut.r.query)
                = [i \in 1..EntitySize(cEntity) |-> NodeId(cId0 + i)]
          /\ cOut.r.id = cId0 + EntitySize(cEntity)
          /\ cOut.r.eid = NodeId(cId0 + 1)
    /\ cOut.op = "match2" => cOut.r2 = cOut.r

\* a nested entity matched twice from a counter that is not zero
C9_Witness ==
    /\ cOut.op = "match2"
    /\ cId0 > 0
    /\ \E i \in 1..Len(cEntity.specifiers) :
          cEntity.specifiers[i].specifiers # <<>>
    /\ Len(cOut.r.query) >= 5

(***************************************************************************)
(* The legacy bridge's claims                                              *)
(***************************************************************************)

\* C10: in sequential use, within one bridge operation every node the
\* compiler emits, the nodes of the specifiers' compiles and of the
\* separately compiled location and direct-object entities included, gets
\* an identifier of its own; over operations that do not call reset the
\* counter never decreases; and no identifier issued by an operation is
\* issued again by a later one.
C10_IdentifierDiscipline ==
    /\ NoRepeat(IdsOf(lOp.query))
    /\ lOp.op \notin {None, "reset"} =>
          /\ id >= lOp.id0
          /\ Len(IdsOf(lOp.query)) = id - lOp.id0
          /\ IdSetOf(lOp.query)
                = {NodeId(lOp.id0 + i) : i \in 1..(id - lOp.id0)}
    /\ IdSetOf(lOp.query) \cap lIssued = {}

\* a store_action with a subject with a specifier and two locations, one of
\* them nested, after an earlier operation that issued identifiers
C10_Witness ==
    /\ lOp.op = "store_action"
    /\ lIssued # {}
    /\ Len(IdsOf(lOp.query)) >= 9

(***************************************************************************)
(* The SPARQL bridge's claims                                              *)
(***************************************************************************)

\* the handling of the message is over and the action called the bridge
\* method op, whose statement went to the transport
Called(op) ==
    /\ bPc = "done"
    /\ bCall.plan.kind = "call"
    /\ ~bCall.plan.stmt.raised
    /\ bCall.plan.op = op

\* the records the transport handed to the get method, in store order
AnswerRecords == Bindings(bCall.plan.stmt.columns, bAnswer.rows)

\* the fact value of a record: the binding of the first column
FactOf(record) == record[bCall.plan.stmt.columns[1]].value

\* the entities bound in a record: the other columns, in column order
EntitiesOf(record) ==
    [n \in 1..(Len(bCall.plan.stmt.columns) - 1) |->
        value(record[bCall.plan.stmt.columns[n + 1]])]

RECURSIVE LinesOf(_, _)
\* the lines of a text, cur the line being read
LinesOf(s, cur) ==
    IF s = "" THEN <<cur>>
    ELSE IF Head(s) = "\n" THEN <<cur>> \o LinesOf(Tail(s), "")
    ELSE LinesOf(Tail(s), cur \o Head(s))

\* C4: the answer of get_value and get_action_time is "Nu stiu" for no rows,
\* the fact value alone for exactly one row, and for two or more rows one
\* bullet line per row, in the order the store returned the rows, each
\* listing the row's entities and then its fact value.
C4_ResultFormatting ==
    \A op \in GetOps :
        (Called(op) /\ bAnswer # NoResult) =>
            LET n == Len(AnswerRecords)
            IN  /\ bOut.status = "returned"
                /\ n = 0 => bOut.value = "Nu stiu"
                /\ n = 1 => bOut.value = FactOf(AnswerRecords[1])
                /\ n >= 2 =>
                      /\ Len(LinesOf(bOut.value, "")) = n
                      /\ \A i \in 1..n :
                            LinesOf(bOut.value, "")[i]
                                = "* "
                                  \o Join(EntitiesOf(AnswerRecords[i]), ", ")
                                  \o ": -> " \o FactOf(AnswerRecords[i])

\* get_action_time answered two rows the store returned in descending row
\* order, each binding two entities or more
C4_Witness ==
    /\ Called("get_action_time")
    /\ bAnswer # NoResult
    /\ Len(bAnswer.rows) >= 2
    /\ bAnswer.rows[1] > bAnswer.rows[2]
    /\ Len(bCall.plan.stmt.columns) >= 3
    /\ bUtter = <<Text(bOut.value)>>

\* C5: when the transport returns no result set (the request failed, the
\* status was an error status, or the response had no bindings), get_value
\* and get_action_time return the unknown sentinel "Nu stiu"; they never
\* raise.
C5_NullResultIsUnknown ==
    \A op \in GetOps :
        (Called(op) /\ bAnswer = NoResult) =>
            bOut = [status |-> "returned", value |-> "Nu stiu"]

\* the last request sent for the message was answered below status 400
SentWithoutError ==
    /\ bHttp # <<>>
    /\ bHttp[Len(bHttp)].outcome \in {"ok", "rows", "none"}

\* C6: set_value and store_action return a success flag, and the store
\* actions utter the storing-error message only when the store failed: after
\* a store whose statement was sent without error no error is uttered.
C6_StoreErrorOnlyOnFailure ==
    \A op \in StoreOps :
        Called(op) =>
            /\ bOut.status = "returned"
            /\ bOut.value # None
            /\ SentWithoutError =>
                  \A i \in 1..Len(bUtter) :
                      bUtter[i] # Template("utter_error_storing_data")

(***************************************************************************)
(* The threaded legacy bridge's claims                                     *)
(***************************************************************************)

\* C11: when two bridge operations run interleaved, each counter update a
\* separate read and write, the statement of each operation still names its
\* nodes with pairwise distinct identifiers.
C11_DistinctIdsWhenInterleaved ==
    \A t \in Threads :
        th[t].pc = "done" =>
            NoRepeat(IdsOf(ThreadStatement(th[t].call, th[t].names)))

(***************************************************************************)
(* The parser's claims                                                     *)
(***************************************************************************)

\* __get_dependency_span has returned
SpanDone == pOut.op = "span"

\* C12: for every dependency tree, every anchor token and either setting of
\* include_all_deps, the span __get_dependency_span computes contains the
\* anchor (start <= anchor <= end), lies within the document, and the
\* traversal returns.
C12_SpanContainsAnchor ==
    SpanDone =>
        /\ pOut.r.first <= pOut.token
        /\ pOut.token <= pOut.r.last
        /\ 1 <= pOut.r.first
        /\ pOut.r.last <= Len(pDoc)

\* the anchor has an included child on either side
C12_Witness ==
    /\ SpanDone
    /\ pOut.include_all_deps
    /\ pOut.r.first < pOut.token
    /\ pOut.token < pOut.r.last
    /\ pDoc[pOut.r.last].head = pOut.token

\* C13: when __get_dependency_span returns a preposition span, no token
\* position lies both in it and in the main span [start, end].
C13_PrepSpanDisjoint ==
    (SpanDone /\ pOut.r.prep_first # 0) =>
        \/ pOut.r.prep_last < pOut.r.first
        \/ pOut.r.last < pOut.r.prep_first

\* process has returned
ProcessDone == pOut.op = "process"

\* a root verb is in the first person singular, or an auxiliary "am" with
\* no relation hangs on a root
SubjectImplied ==
    \/ \E i \in 1..Len(pDoc) :
          pDoc[i].dep = "ROOT" /\ pDoc[i].tag = "Vmip1s"
    \/ \E i \in 1..Len(pDoc) :
          /\ pDoc[i].text = "am"
          /\ pDoc[i].dep = "-"
          /\ pDoc[pDoc[i].head].dep = "ROOT"

\* a token on a root answers the question who
WhoPresent ==
    \E i \in 1..Len(pDoc) :
        pDoc[i].dep = "cine" /\ pDoc[pDoc[i].head].dep = "ROOT"

\* the positions of the synthesized subject among the roles: the roles of
\* tokens carry a pre field, the synthesized subject does not
SynthesizedAt ==
    { n \in 1..Len(pOut.r) : "pre" \notin DOMAIN pOut.r[n] }

\* C14: after process, if a subject is implied and no top-level role has the
\* tag "cine", exactly one synthesized subject with value and lemma "eu" and
\* no specifiers is appended, last; if a top-level role has the tag "cine",
\* or no subject is implied, none is synthesized; never two.
C14_SubjectInference ==
    ProcessDone =>
        /\ (SubjectImplied /\ ~WhoPresent) =>
              /\ SynthesizedAt = {Len(pOut.r)}
              /\ pOut.r[Len(pOut.r)].question = "cine"
              /\ pOut.r[Len(pOut.r)].value = "eu"
              /\ pOut.r[Len(pOut.r)].lemma = "eu"
              /\ pOut.r[Len(pOut.r)].specifiers = <<>>
        /\ (WhoPresent \/ ~SubjectImplied) => SynthesizedAt = {}
        /\ Cardinality(SynthesizedAt) <= 1

\* a third-person root with the auxiliary "am" and another role, no who
C14_Witness ==
    /\ ProcessDone
    /\ SubjectImplied
    /\ ~ \E i \in 1..Len(pDoc) : pDoc[i].tag = "Vmip1s"
    /\ ~WhoPresent
    /\ Len(pOut.r) >= 3
    /\ SynthesizedAt = {Len(pOut.r)}

(***************************************************************************)
(* The bridge statements' claims                                           *)
(***************************************************************************)

\* the clauses of a statement that are fact edges: an edge to a value or
\* time node, or an edge between two compiled nodes typed by a fact type
FactEdges(query) ==
    SelectSeq(query, LAMBDA c :
        \/ c.k = "fact"
        \/ c.k = "edge" /\ c.type \in MemAssistInfoType)

\* the node clause of a statement that introduces the identifier n
NodeOf(query, n) ==
    LET ns == SelectSeq(query, LAMBDA c : c.k = "node" /\ c.id = n)
    IN  ns[1]

\* the fact edge of a set_value statement is the one the claim describes:
\* it starts at the root node of the entity, which is the Instance node when
\* the entity has specifiers, has the given type, and ends at a value node,
\* at the root of the location, or at a time node carrying the value
SetValueEdge(query, args, loc_verb) ==
    LET edges == FactEdges(query)
        edge  == edges[1]
        root  == NodeOf(query, edge.from)
    IN  /\ Len(edges) = 1
        /\ edge = query[Len(query)]
        /\ edge.type = args.type
        /\ root.label = IF args.entity.specifiers = <<>>
                        THEN "class"
                        ELSE "instance"
        /\ IF args.type = "LOC"
           THEN /\ edge.k = "edge"
                /\ LET to == NodeOf(query, edge.to)
                   IN  /\ to.label = IF args.value.specifiers = <<>>
                                     THEN "class"
                                     ELSE "instance"
                       /\ to.id # edge.from
                /\ \E i \in 1..Len(query) :
                      /\ query[i].k = "node"
                      /\ query[i].label = "class"
                      /\ query[i].value = args.value.lemma
                      /\ query[i].verb = loc_verb
           ELSE /\ edge.k = "fact"
                /\ edge.value = args.value
                /\ (args.type = "VAL") = (edge.label # "time")

Statement == bCall.plan.stmt.query

\* C16: in the statement of store_action, the action node attached to the
\* subject by the ACTION edge is the node that carries the direct-object
\* edge, every location edge and every time edge.
C16_ActionNodeCarriesEdges ==
    Called("store_action") =>
        LET actions == SelectSeq(Statement, LAMBDA c : c.k = "action")
        IN  /\ Len(actions) = 1
            /\ actions[1].name # ""
            /\ \A i \in 1..Len(Statement) :
                  (\/ Statement[i].k = "fact"
                   \/ /\ Statement[i].k = "edge"
                      /\ Statement[i].type \in {"CE", "LOC"}) =>
                      Statement[i].from = actions[1].name

\* the components the action regrouped from the roles of the message
RegroupedComponents == extract_sentence_components(bCall.roles)

\* the nodes a get_action_time statement matches, read off the statement:
\* the node the ACTION edge starts at, the node the CE edge ends at, the
\* nodes the LOC edges end at in text order
MatchedNodes ==
    LET act == SelectSeq(Statement, LAMBDA c : c.k = "action")
        ce  == SelectSeq(Statement,
                         LAMBDA c : c.k = "edge" /\ c.type = "CE")
        loc == SelectSeq(Statement,
                         LAMBDA c : c.k = "edge" /\ c.type = "LOC")
    IN  <<act[1].from>> \o [i \in 1..Len(ce) |-> ce[i].to]
                        \o [i \in 1..Len(loc) |-> loc[i].to]

RolesTagged(tags) ==
    SelectSeq(bCall.roles, LAMBDA ent : ent.question \in tags)

\* a slot the action needs is missing from the roles: no entity at all, or
\* no time role in a time request, or no subject in a sentence the time
\* actions handle as a complex action
SlotMissing ==
    \/ RolesTagged({"ce", "cine"}) = <<>>
    \/ /\ bCall.handler \in {"action_get_time", "action_store_time"}
       /\ \/ RolesTagged({"cand", "cat timp"}) = <<>>
          \/ /\ ~TimeRolesOf(bCall.roles).simple
             /\ RolesTagged({"cine"}) = <<>>

\* C18: when a required slot is missing from the roles, the action reports
\* the could-not-extract message, makes no store or query call and raises
\* no exception.
C18_MissingSlotReported ==
    (bPc = "done" /\ SlotMissing) =>
        /\ bUtter = <<Text(entity_extraction_failure_msg)>>
        /\ bHttp = <<>>
        /\ bOut.status = "not called"

\* the read requests sent for the message so far
GetRequests == SelectSeq(bHttp, LAMBDA r : r.method = "GET")

\* C20: get sends at most num_retries + 1 requests, each but the first after
\* a failed attempt; when every attempt fails it returns None instead of
\* raising, and a successful attempt returns its bindings with no further
\* request.
C20_BoundedRetries ==
    /\ Len(GetRequests) <= NumRetries + 1
    /\ \A i \in 1..(Len(GetRequests) - 1) : GetRequests[i].outcome = "raise"
    /\ bPc = "get" => Len(GetRequests) = NumRetries - bRetries
    /\ (bPc \in {"back", "done"} /\ GetRequests # <<>>) =>
          LET last == GetRequests[Len(GetRequests)].outcome
          IN  /\ last = "rows" <=> bAnswer # NoResult
              /\ last = "raise" => Len(GetRequests) = NumRetries + 1

\* every attempt failed and get returned None
C20_Witness ==
    /\ bPc = "back"
    /\ Len(GetRequests) = NumRetries + 1
    /\ \A i \in 1..Len(GetRequests) : GetRequests[i].outcome = "raise"
    /\ bAnswer = NoResult

\* C19: for an entity whose lemma is empty, query_create_noun_phrase and
\* query_match_noun_phrase signal an invalid-entity error and emit no
\* statement text, so no statement holds an empty lemma.
C19_EmptyLemmaRejected ==
    (cOut.op # None /\ cEntity.lemma = "") =>
        /\ "error" \in DOMAIN cOut.r
        /\ cOut.r.query = <<>>

(***************************************************************************)
(* The transport's outcomes as the caller of the bridge sees them          *)
(***************************************************************************)

\* the last read request sent for the message failed: it raised with no
\* retry left, or the store answered with a status of 400 or more
TransportFailed ==
    /\ bHttp # <<>>
    /\ bHttp[Len(bHttp)].method = "GET"
    /\ bHttp[Len(bHttp)].outcome \in {"raise", "error"}

\* C21: when the transport failed, get_value and get_action_time return to
\* the caller a value, and that value differs from the one they return when
\* the store answered with zero rows ("Nu stiu").
C21_StoreUnavailableDistinct ==
    \A op \in GetOps :
        (Called(op) /\ TransportFailed) =>
            /\ bOut.status = "returned"
            /\ bOut.value # prettify_result(<<>>)

(***************************************************************************)
(* The roles process emits                                                 *)
(***************************************************************************)

\* the semantic-question tags: who, what, where, when, how long, which, what
\* kind of, whose, and the root
SemanticQuestionTags ==
    {"cine", "ce", "unde", "cand", "cat timp", "care", "ce fel de", "al cui",
     "ROOT"}

\* the positions of the tokens that qualify for a top-level entity: the head
\* is a sentence root and the token's own role is a semantic-question tag
QualifyingTokens ==
    SelectSeq([i \in 1..Len(pDoc) |-> i],
              LAMBDA i : /\ pDoc[pDoc[i].head].dep = "ROOT"
                         /\ pDoc[i].dep \in SemanticQuestionTags)

\* the roles process built from tokens, the synthesized subject left out
TokenRoles == SelectSeq(pOut.r, LAMBDA ent : "pre" \in DOMAIN ent)

\* C22: process emits exactly one top-level entity for each token whose head
\* is the sentence root and whose role is a semantic-question tag, in token
\* order, and none for a token with the no-relation or the preposition role.
C22_TopLevelEntities ==
    ProcessDone =>
        /\ Len(TokenRoles) = Len(QualifyingTokens)
        /\ \A n \in 1..Len(TokenRoles) :
              /\ TokenRoles[n].question \notin {"-", "prep"}
              /\ n <= Len(QualifyingTokens) =>
                    /\ TokenRoles[n].question = pDoc[QualifyingTokens[n]].dep
                    /\ TokenRoles[n].value = pDoc[QualifyingTokens[n]].text

(***************************************************************************)
(* The specifier extractor's claims                                        *)
(***************************************************************************)

\* __get_specifiers has returned
SpecifiersDone == pOut.op = "specifiers"

\* the children of parent that yield an attribute specifier: those with a
\* role of always, and the how-long children of a parent that is no root
AttributeChildren(doc, parent, always) ==
    SelectSeq(Children(doc, parent),
              LAMBDA c : \/ doc[c].dep \in always
                         \/ /\ doc[c].dep = "cat timp"
                            /\ doc[parent].dep # "ROOT")

\* the children of parent that yield a specifier, in document order
SpecifierChildren(doc, parent, always) ==
    SelectSeq(Children(doc, parent),
              LAMBDA c : \/ doc[c].dep = "al cui"
                         \/ \E n \in 1..Len(AttributeChildren(doc, parent,
                                                              always)) :
                               AttributeChildren(doc, parent, always)[n] = c)

RECURSIVE SpecifiersAsDescribed(_, _, _, _)
\* specs holds one specifier per specifier child of parent and nothing else:
\* for an attribute child the extended span text as value and as lemma and
\* no specifiers, for a whose child the token text, the looked-up lemma and
\* the specifiers of that child, described the same way
SpecifiersAsDescribed(doc, parent, specs, always) ==
    LET kids == SpecifierChildren(doc, parent, always)
    IN  /\ Len(specs) = Len(kids)
        /\ \A n \in 1..Len(specs) :
              n <= Len(kids) =>
                 LET c == kids[n]
                 IN  /\ specs[n].question = doc[c].dep
                     /\ IF doc[c].dep = "al cui"
                        THEN /\ specs[n].value = doc[c].text
                             /\ specs[n].lemma = lemmatize(doc[c])
                             /\ SpecifiersAsDescribed(doc, c,
                                    specs[n].specifiers, always)
                        ELSE /\ specs[n].value
                                   = get_dependency_span(doc, c, TRUE).text
                             /\ specs[n].lemma = specs[n].value
                             /\ specs[n].specifiers = <<>>

\* C23 as stated: the attribute roles are which and what kind of (and how
\* long below a parent that is no root); a child with any other role but
\* whose yields nothing.
C23_AsStated ==
    SpecifiersDone =>
        SpecifiersAsDescribed(pDoc, pOut.parent, pOut.r, {"care", "ce fel de"})

\* C23: __get_specifiers considers exactly the tokens whose head is the
\* parent: a which, what-kind or how-much child (and a how-long child when
\* the parent is no root) yields a specifier whose value and lemma are the
\* extended span text and whose specifiers are empty; a whose child yields
\* the token text, the looked-up lemma and its own specifiers, extracted
\* recursively; any other child yields nothing.
C23_Specifiers ==
    SpecifiersDone =>
        SpecifiersAsDescribed(pDoc, pOut.parent, pOut.r,
                              {"care", "ce fel de", "cat"})

\* a whose specifier that carries a how-long specifier of its own
C23_Witness ==
    /\ SpecifiersDone
    /\ \E n \in 1..Len(pOut.r) :
          /\ pOut.r[n].question = "al cui"
          /\ pOut.r[n].lemma = "eu"
          /\ Len(pOut.r[n].specifiers) = 1
          /\ pOut.r[n].specifiers[1].question = "cat timp"

(***************************************************************************)
(* The sentence components' claims                                         *)
(***************************************************************************)

\* an action is handling a message
Handling == bCall.handler # None

\* the interrogative particles
AskParticles == {"cand", "cat", "ce", "care"}

\* the when and how-long roles of the message that are facts by the rule
\* skip tells the question roles with, in role order
FactTimeRoles(skip(_)) ==
    SelectSeq(RolesTagged({"cand", "cat timp"}), LAMBDA ent : ~skip(ent))

\* the components regrouped from the roles are the defaults changed as the
\* claim describes, skip telling which time roles are left out
RegroupedAsDescribed(skip(_)) ==
    LET c     == RegroupedComponents
        timed == FactTimeRoles(skip)
    IN  /\ Len(c.time) = Len(timed)
        /\ \A n \in 1..Len(c.time) :
              n <= Len(timed) =>
                 /\ c.time[n][1]
                       = Strip(timed[n].pre \o " " \o timed[n].ext_value)
                 /\ c.time[n][2]
                       = get_time_type(timed[n],
                                       RootExtValue(bCall.roles, None))
        /\ c.loc = RolesTagged({"unde"})
        /\ RolesTagged({"cine"}) = <<>> => c.subj = UnknownEntity
        /\ RolesTagged({"ROOT"}) = <<>> => c.action = "?"
        /\ RolesTagged({"ce"}) = <<>> => c.ce = NoEntity

RootRoles == RolesTagged({"ROOT"})

\* C25: when a time action stores or asks for a complex action, the action
\* of the regrouped components, the value the statement gives the action
\* node, and the governing action each time role is classified with are the
\* lemma of the ROOT role, the value the time action itself classifies the
\* requested time type with.
C25_ActionIsRootLemma ==
    \A op \in {"store_action", "get_action_time"} :
        (Called(op) /\ RootRoles # <<>>) =>
            LET lemma == RootRoles[Len(RootRoles)].lemma
                timed == FactTimeRoles(HasAskParticle)
            IN  /\ TimeRolesOf(bCall.roles).action = lemma
                /\ RegroupedComponents.action = lemma
                /\ \A i \in 1..Len(Statement) :
                      Statement[i].k = "action" => Statement[i].value = lemma
                /\ \A n \in 1..Len(timed) :
                      RegroupedComponents.time[n][2]
                          = get_time_type(timed[n], lemma)

(***************************************************************************)
(* Match against create                                                    *)
(***************************************************************************)

RECURSIVE NodeLemma(_, _)
\* the lemma of the node a statement names n: that of the class or pattern
\* clause with this identifier, for an instance that of its class; "(none)"
\* when the statement introduces no such node
NodeLemma(query, n) ==
    LET ns == SelectSeq(query, LAMBDA c : c.k \in {"node", "pattern"}
                                          /\ c.id = n)
    IN  IF ns = <<>> THEN "(none)"
        ELSE IF "isa" \in DOMAIN ns[1] THEN NodeLemma(query, ns[1].isa)
        ELSE ns[1].value

\* the specifier links of a statement in text order: the edge type and the
\* nodes it starts and ends at
LinkShapes(query) ==
    LET edges == SelectSeq(query, LAMBDA c : c.k = "edge")
    IN  [i \in 1..Len(edges) |->
            [type |-> edges[i].type,
             from |-> NodeLemma(query, edges[i].from),
             to   |-> NodeLemma(query, edges[i].to)]]

\* the create statement of the entity the match was compiled for, by the
\* same QueryBuilder
CreatedForMatch ==
    IF cOut.op = "sparql_match"
    THEN sparql_create_noun_phrase(cEntity, cFlag, cUuids, 0).query
    ELSE query_create_noun_phrase(cEntity, cFlag, cId0).query

\* C26: the pattern query_match_noun_phrase emits for an entity requires,
\* per specifier, the edge the create statement of the same entity makes: a
\* "specifier" edge from the entity node to the specifier node for a which /
\* what-kind specifier, a "has" edge from the specifier node to the entity
\* node for a whose specifier; the root pattern accepts the node directly or
\* through one is-a hop.
C26_MatchLikeCreate ==
    cOut.op \in {"match", "sparql_match"} =>
        /\ cOut.r.query[1].k = "pattern"
        /\ cOut.r.query[1].id = cOut.r.eid
        /\ cOut.r.query[1].value = cEntity.lemma
        /\ LinkShapes(cOut.r.query) = LinkShapes(CreatedForMatch)
        /\ \A i \in 1..Len(cOut.r.query) :
              cOut.r.query[i].k = "edge" =>
                  /\ NodeLemma(cOut.r.query, cOut.r.query[i].from) # "(none)"
                  /\ NodeLemma(cOut.r.query, cOut.r.query[i].to) # "(none)"

(***************************************************************************)
(* The transport operation of each bridge method                           *)
(***************************************************************************)

\* C27: a bridge method hands its one compiled statement to the transport
\* operation that fits it: set_value and store_action send an insert through
\* the update operation, in one POST; get_value and get_action_time send a
\* select through the query operation, in GET requests of that statement.
C27_OperationKindFits ==
    \A op \in StoreOps \cup GetOps :
        Called(op) =>
            /\ bHttp # <<>>
            /\ op \in StoreOps =>
                  /\ bCall.plan.stmt.wrap = "insert_data"
                  /\ bCall.plan.stmt.kind = "update"
                  /\ Len(bHttp) = 1
                  /\ bHttp[1].method = "POST"
                  /\ bHttp[1].param = "update"
            /\ op \in GetOps =>
                  /\ bCall.plan.stmt.wrap = "select"
                  /\ bCall.plan.stmt.kind = "query"
                  /\ \A i \in 1..Len(bHttp) :
                        /\ bHttp[i].method = "GET"
                        /\ bHttp[i].param = "query"

(***************************************************************************)
(* The links of the specifier nodes                                        *)
(***************************************************************************)

\* the links of a statement that start or end at the node n
LinksAt(query, n) ==
    SelectSeq(query, LAMBDA c : c.k = "edge" /\ (c.from = n \/ c.to = n))

\* C28: in the statement of query_create_noun_phrase every specifier node is
\* linked to the instance node of its parent by exactly one edge, whatever
\* role the extractor gave the specifier (which, what kind of, whose, how
\* much, how long): the instance of the entity has one link per specifier,
\* and the statement one link per specifier of any depth.
C28_EverySpecifierLinked ==
    CreateDone =>
        /\ Len(LinksAt(cOut.r.query, cOut.r.eid)) = Len(cEntity.specifiers)
        /\ Len(SelectSeq(cOut.r.query, LAMBDA c : c.k = "edge"))
              = EntitySize(cEntity) - 1

(***************************************************************************)
(* The reach of match_existing                                             *)
(***************************************************************************)

\* C29: in the statement of query_create_noun_phrase the flag match_existing
\* of the top-level call decides the mode of the top-level Class node only,
\* the first node of the statement: the Class node of every specifier, at
\* every depth, is emitted with merge whatever the flag, and every Instance
\* node with create, so that an entity with specifiers compiled in merge
\* mode still creates a new Instance node.
C29_FlagOnlyOnTopClass ==
    cOut.op = "create" =>
        /\ cOut.r.query[1].k = "node"
        /\ cOut.r.query[1].label = "class"
        /\ cOut.r.query[1].value = cEntity.lemma
        /\ cOut.r.query[1].verb = IF cFlag THEN "merge" ELSE "create"
        /\ \A i \in 2..Len(cOut.r.query) :
              cOut.r.query[i].k = "node" =>
                  cOut.r.query[i].verb
                      = IF cOut.r.query[i].label = "class"
                        THEN "merge"
                        ELSE "create"
        /\ cEntity.specifiers # <<>> =>
              \E i \in 1..Len(cOut.r.query) :
                  /\ cOut.r.query[i].k = "node"
                  /\ cOut.r.query[i].label = "instance"
                  /\ cOut.r.query[i].id = cOut.r.eid
                  /\ cOut.r.query[i].verb = "create"

\* an entity compiled in merge mode whose specifier has a specifier of its
\* own: two Instance nodes, both created
C29_Witness ==
    /\ cOut.op = "create"
    /\ cFlag
    /\ \E i \in 1..Len(cEntity.specifiers) :
          cEntity.specifiers[i].specifiers # <<>>
    /\ Len(SelectSeq(cOut.r.query,
                     LAMBDA c : c.k = "node" /\ c.label = "instance"
                                /\ c.verb = "create")) >= 2

(***************************************************************************)
(* Store-side errors in the transport                                      *)
(***************************************************************************)

\* C30: a read attempt that ends with a status of 400 or more is retried
\* like one that raised: get returns without a result after such an attempt
\* only when num_retries + 1 requests have been sent.
C30_ErrorStatusRetried ==
    (bPc \in {"back", "done"} /\ GetRequests # <<>>) =>
        (GetRequests[Len(GetRequests)].outcome = "error" =>
            /\ Len(GetRequests) = NumRetries + 1
            /\ bAnswer = NoResult)

====
